---- MODULE Spec2Model ----
(***************************************************************************)
(* LogicWeaver backend: the workflow status flow engine                    *)
(* (app/services/status.py, app/routers/status.py), the workflow CRUD and  *)
(* template operations that write Workflow.status, and the logic-strategy  *)
(* mapping of the protocol projector (app/services/protocol.py).           *)
(*                                                                         *)
(* Python dicts are records; a dict lookup d.get(k, default) is Get.       *)
(* Python None is the string None for an absent status and NoneDict for an *)
(* absent dict; any other Optional is a sequence of length 0 or 1.         *)
(* Chinese message texts are replaced by ASCII glosses.                    *)
(***************************************************************************)
EXTENDS Integers, Sequences, FiniteSets, TLC

VARIABLES
    workflows,       \* the workflows table: id -> [status, is_template, template_id]
    next_uuid,       \* the next fresh primary key (UUIDMixin)
    request,         \* the HTTP request handled last: [op, workflow_id, status]
    response,        \* its answer: [http, result]
    before,          \* history: the workflows table when that request arrived
    prev,            \* history, kept under SpecMoves: the advance or rollback handled just before it
    strategy_in,     \* the argument given to map_logic_strategy_to_protocol
    strategy_out,    \* what the call returned: <<>> before the call, <<value>> after
    tasks,           \* the tasks table: id -> [workflow_id, name, task_order]
    steps,           \* the workflow_steps table: id -> row (see NullStep)
    examples,        \* the examples table, rows in stored order
    routing_branches, \* the routing_branches table, rows in stored order
    notes,           \* the step_notes table, rows in stored order
    sessions         \* the requests in flight: what each has read and not yet committed

vars == <<workflows, next_uuid, request, response, before, prev,
          strategy_in, strategy_out, tasks, steps, examples, routing_branches,
          notes, sessions>>

table_vars == <<tasks, steps, examples, routing_branches, notes>>

status_vars == <<workflows, next_uuid, request, response, before, prev>>
mapping_vars == <<strategy_in, strategy_out>>

\* two requests can be in flight at once; a request that has read nothing is Idle
Sessions == {"a", "b"}
Idle == [pc |-> "idle"]

(***************************************************************************)
(* Bounds                                                                  *)
(***************************************************************************)
\* number of primary keys the model hands out
MaxWorkflows == 2
\* how many entries of PRESET_TEMPLATES init_preset_templates creates
PresetCount == 1
\* longest free-form logic_strategy string tried besides the named ones
MaxStrLen == 3
\* how many tasks of a preset template, and steps of a preset task, are created
PresetTaskCount == 1
PresetStepCount == 1
\* longest lists of examples and of routing branches a sampled step has
MaxExamples == 2
MaxBranches == 2
\* most steps a workflow has when a request adds one to it
MaxSteps == 2
\* most tasks the tasks table holds when a request adds one
MaxTasks == 2

None == "None"
NoneDict == [none |-> TRUE]

Range(s) == {s[i] : i \in DOMAIN s}

\* dict.get(k, default)
Get(d, k, default) == IF k \in DOMAIN d THEN d[k] ELSE default

\* ids a request can name: every key the model hands out plus one that never exists
WorkflowIds == 1..(MaxWorkflows + 1)

(***************************************************************************)
(* app/services/status.py: the three parallel tables                       *)
(***************************************************************************)
VALID_TRANSITIONS_skip ==
    [draft       |-> <<"worker_done", "expert_done">>,
     worker_done |-> <<"draft", "expert_done">>,
     expert_done |-> <<"worker_done", "analyzed">>,
     analyzed    |-> <<"expert_done", "confirmed">>,
     confirmed   |-> <<"analyzed", "delivered">>,
     delivered   |-> <<"confirmed">>]

VALID_TRANSITIONS ==
    [draft       |-> <<"worker_done">>,
     worker_done |-> <<"draft", "expert_done">>,
     expert_done |-> <<"worker_done", "analyzed">>,
     analyzed    |-> <<"expert_done", "confirmed">>,
     confirmed   |-> <<"analyzed", "delivered">>,
     delivered   |-> <<"confirmed">>]

STATUS_LABELS ==
    [draft       |-> "label_draft",
     worker_done |-> "label_waiting_for_expert",
     expert_done |-> "label_waiting_for_ai_analysis",
     analyzed    |-> "label_waiting_for_review",
     confirmed   |-> "label_confirmed",
     delivered   |-> "label_delivered"]

STATUS_COLORS ==
    [draft       |-> "slate",
     worker_done |-> "amber",
     expert_done |-> "blue",
     analyzed    |-> "purple",
     confirmed   |-> "emerald",
     delivered   |-> "green"]

(***************************************************************************)
(* app/models/workflow.py, app/schemas/workflow.py                         *)
(***************************************************************************)
\* CheckConstraint ck_workflow_status on the workflows table
ck_workflow_status_legacy(status) ==
    status \in {"draft", "worker_done", "expert_done", "analyzed", "confirmed",
                "delivered", "deployed"}

ck_workflow_status(status) ==
    status \in {"draft", "worker_done", "expert_done", "analyzed", "confirmed",
                "delivered"}

\* the Literal the request schemas WorkflowCreate / WorkflowUpdate accept
WorkflowStatus ==
    {"draft", "worker_done", "expert_done", "analyzed", "confirmed", "delivered",
     "deployed"}

\* TransitionRequest.new_status is a plain str: the schema strings and one more
StatusStrings == WorkflowStatus \cup {"archived"}

\* db.commit(): the pending table is stored unless a row breaks a constraint
\* (IntegrityError, the session is rolled back and the old table stays)
commit(db, pending) ==
    IF \A id \in DOMAIN pending : ck_workflow_status(pending[id].status)
    THEN [ok |-> TRUE, db |-> pending]
    ELSE [ok |-> FALSE, db |-> db]

(***************************************************************************)
(* app/services/status.py: the service functions.  Each returns the dict   *)
(* (or NoneDict) it hands to the router together with the table it leaves. *)
(***************************************************************************)
\* advance_workflow_status.next_status_map
next_status_map_skip ==
    [draft       |-> "worker_done",
     worker_done |-> "expert_done",
     expert_done |-> "confirmed",
     analyzed    |-> "confirmed",
     confirmed   |-> "delivered"]

next_status_map ==
    [draft       |-> "worker_done",
     worker_done |-> "expert_done",
     expert_done |-> "analyzed",
     analyzed    |-> "confirmed",
     confirmed   |-> "delivered"]

\* rollback_workflow_status.prev_status_map
prev_status_map_skip ==
    [worker_done |-> "draft",
     expert_done |-> "worker_done",
     analyzed    |-> "worker_done",
     confirmed   |-> "analyzed",
     delivered   |-> "confirmed"]

prev_status_map_reset ==
    [worker_done |-> "draft",
     expert_done |-> "draft",
     analyzed    |-> "draft",
     confirmed   |-> "draft",
     delivered   |-> "draft"]

prev_status_map ==
    [worker_done |-> "draft",
     expert_done |-> "worker_done",
     analyzed    |-> "expert_done",
     confirmed   |-> "analyzed",
     delivered   |-> "confirmed"]

\* a slip: the allowed transitions taken from the forward-only map
get_workflow_status_forward_only(db, workflow_id) ==
    IF workflow_id \notin DOMAIN db
    THEN [db |-> db, result |-> NoneDict, raised |-> FALSE]
    ELSE LET workflow == db[workflow_id] IN
         [db |-> db, raised |-> FALSE,
          result |->
             [id |-> workflow_id,
              status |-> workflow.status,
              label |-> Get(STATUS_LABELS, workflow.status, workflow.status),
              color |-> Get(STATUS_COLORS, workflow.status, "slate"),
              allowed_transitions |->
                  IF workflow.status \in DOMAIN next_status_map
                  THEN <<next_status_map[workflow.status]>> ELSE <<>>]]

get_workflow_status(db, workflow_id) ==
    IF workflow_id \notin DOMAIN db
    THEN [db |-> db, result |-> NoneDict, raised |-> FALSE]
    ELSE LET workflow == db[workflow_id] IN
         [db |-> db, raised |-> FALSE,
          result |->
             [id |-> workflow_id,
              status |-> workflow.status,
              label |-> Get(STATUS_LABELS, workflow.status, workflow.status),
              color |-> Get(STATUS_COLORS, workflow.status, "slate"),
              allowed_transitions |-> Get(VALID_TRANSITIONS, workflow.status, <<>>)]]

\* the error text of a rejected transition, an f-string over the two labels
\* (STATUS_LABELS.get(x) is None for a string outside the table)
TransitionError(status, new_status) ==
    <<"transition_not_allowed_from", Get(STATUS_LABELS, status, None),
      "to", Get(STATUS_LABELS, new_status, None)>>

\* the dict of a successful transition, read back after commit and refresh
TransitionSuccess(db, workflow_id) ==
    [success |-> TRUE,
     id |-> workflow_id,
     status |-> db[workflow_id].status,
     label |-> Get(STATUS_LABELS, db[workflow_id].status, db[workflow_id].status),
     color |-> Get(STATUS_COLORS, db[workflow_id].status, "slate"),
     allowed_transitions |-> Get(VALID_TRANSITIONS, db[workflow_id].status, <<>>)]

\* a slip: the rejection reports the row of the requested status
transition_workflow_status_wrong_row(db, workflow_id, new_status) ==
    IF workflow_id \notin DOMAIN db
    THEN [db |-> db, result |-> NoneDict, raised |-> FALSE]
    ELSE LET workflow == db[workflow_id]
             allowed == Get(VALID_TRANSITIONS, workflow.status, <<>>)
         IN  IF new_status \notin Range(allowed)
             THEN [db |-> db, raised |-> FALSE,
                   result |-> [success |-> FALSE,
                               error |-> TransitionError(workflow.status, new_status),
                               allowed_transitions |->
                                   Get(VALID_TRANSITIONS, new_status, <<>>)]]
             ELSE LET c == commit(db, [db EXCEPT ![workflow_id].status = new_status])
                  IN  IF c.ok
                      THEN [db |-> c.db, raised |-> FALSE,
                            result |-> TransitionSuccess(c.db, workflow_id)]
                      ELSE [db |-> c.db, raised |-> TRUE, result |-> NoneDict]

\* a slip: an unknown id answered with a rejection dict instead of None
transition_workflow_status_no_404(db, workflow_id, new_status) ==
    IF workflow_id \notin DOMAIN db
    THEN [db |-> db, raised |-> FALSE,
          result |-> [success |-> FALSE,
                      error |-> TransitionError(None, new_status),
                      allowed_transitions |-> <<>>]]
    ELSE LET workflow == db[workflow_id]
             allowed == Get(VALID_TRANSITIONS, workflow.status, <<>>)
         IN  IF new_status \notin Range(allowed)
             THEN [db |-> db, raised |-> FALSE,
                   result |-> [success |-> FALSE,
                               error |-> TransitionError(workflow.status, new_status),
                               allowed_transitions |-> allowed]]
             ELSE LET c == commit(db, [db EXCEPT ![workflow_id].status = new_status])
                  IN  IF c.ok
                      THEN [db |-> c.db, raised |-> FALSE,
                            result |-> TransitionSuccess(c.db, workflow_id)]
                      ELSE [db |-> c.db, raised |-> TRUE, result |-> NoneDict]

transition_workflow_status(db, workflow_id, new_status) ==
    IF workflow_id \notin DOMAIN db
    THEN [db |-> db, result |-> NoneDict, raised |-> FALSE]
    ELSE LET workflow == db[workflow_id]
             allowed == Get(VALID_TRANSITIONS, workflow.status, <<>>)
         IN  IF new_status \notin Range(allowed)
             THEN [db |-> db, raised |-> FALSE,
                   result |-> [success |-> FALSE,
                               error |-> TransitionError(workflow.status, new_status),
                               allowed_transitions |-> allowed]]
             ELSE LET c == commit(db, [db EXCEPT ![workflow_id].status = new_status])
                  IN  IF c.ok
                      THEN [db |-> c.db, raised |-> FALSE,
                            result |-> TransitionSuccess(c.db, workflow_id)]
                      ELSE [db |-> c.db, raised |-> TRUE, result |-> NoneDict]

\* the dict of a successful advance or rollback
MoveSuccess(db, workflow_id, current) ==
    [success |-> TRUE,
     id |-> workflow_id,
     previous_status |-> current,
     status |-> db[workflow_id].status,
     label |-> Get(STATUS_LABELS, db[workflow_id].status, db[workflow_id].status),
     color |-> Get(STATUS_COLORS, db[workflow_id].status, "slate")]

advance_workflow_status(db, workflow_id) ==
    IF workflow_id \notin DOMAIN db
    THEN [db |-> db, result |-> NoneDict, raised |-> FALSE]
    ELSE LET current == db[workflow_id].status
             next_status == Get(next_status_map, current, None)
         IN  IF next_status = None
             THEN [db |-> db, raised |-> FALSE,
                   result |-> [success |-> FALSE,
                               error |-> "already_final_status",
                               status |-> current]]
             ELSE LET c == commit(db, [db EXCEPT ![workflow_id].status = next_status])
                  IN  IF c.ok
                      THEN [db |-> c.db, raised |-> FALSE,
                            result |-> MoveSuccess(c.db, workflow_id, current)]
                      ELSE [db |-> c.db, raised |-> TRUE, result |-> NoneDict]

rollback_workflow_status(db, workflow_id) ==
    IF workflow_id \notin DOMAIN db
    THEN [db |-> db, result |-> NoneDict, raised |-> FALSE]
    ELSE LET current == db[workflow_id].status
             prev_status == Get(prev_status_map, current, None)
         IN  IF prev_status = None
             THEN [db |-> db, raised |-> FALSE,
                   result |-> [success |-> FALSE,
                               error |-> "already_initial_status",
                               status |-> current]]
             ELSE LET c == commit(db, [db EXCEPT ![workflow_id].status = prev_status])
                  IN  IF c.ok
                      THEN [db |-> c.db, raised |-> FALSE,
                            result |-> MoveSuccess(c.db, workflow_id, current)]
                      ELSE [db |-> c.db, raised |-> TRUE, result |-> NoneDict]

(***************************************************************************)
(* app/services/workflow.py, app/repositories/workflow.py                  *)
(***************************************************************************)
\* WorkflowResponse.model_validate(row), the fields the model keeps
WorkflowResponse(db, workflow_id) ==
    [id |-> workflow_id, status |-> db[workflow_id].status]

\* the name a create request carries
SubmittedName == <<"w">>

\* WorkflowService.create_workflow / WorkflowRepository.create; is_template takes
\* its column default, template_id is NULL
create_workflow(db, new_id, status) ==
    LET workflow == [name |-> SubmittedName, status |-> status,
                     is_template |-> FALSE, template_id |-> <<>>]
        c == commit(db, (new_id :> workflow) @@ db)
    IN  IF c.ok
        THEN [db |-> c.db, raised |-> FALSE, result |-> WorkflowResponse(c.db, new_id)]
        ELSE [db |-> c.db, raised |-> TRUE, result |-> NoneDict]

\* WorkflowService.update_workflow / WorkflowRepository.update: status is the
\* only modelled key of update_data; a key that is unset or None is skipped
update_workflow(db, workflow_id, status) ==
    IF workflow_id \notin DOMAIN db
    THEN [db |-> db, result |-> NoneDict, raised |-> FALSE]
    ELSE LET pending == IF status # None
                        THEN [db EXCEPT ![workflow_id].status = status]
                        ELSE db
             c == commit(db, pending)
         IN  IF c.ok
             THEN [db |-> c.db, raised |-> FALSE,
                   result |-> WorkflowResponse(c.db, workflow_id)]
             ELSE [db |-> c.db, raised |-> TRUE, result |-> NoneDict]

(***************************************************************************)
(* app/models/workflow.py: the tasks and workflow_steps tables.            *)
(* A Python str that the protocol projector slices, joins or strips is a   *)
(* sequence of one-character strings; a nullable column holds <<>> for     *)
(* NULL and <<value>> otherwise.                                           *)
(***************************************************************************)
\* the two stored values of logic_strategy
rule_based == <<"r", "u", "l", "e", "_", "b", "a", "s", "e", "d">>
few_shot == <<"f", "e", "w", "_", "s", "h", "o", "t">>

\* UUIDMixin: n primary keys no row of the table uses
RECURSIVE uuid4(_, _)
uuid4(used, n) ==
    IF n = 0
    THEN <<>>
    ELSE LET id == CHOOSE i \in 1..(Cardinality(used) + 1) :
                       i \notin used /\ \A j \in 1..(i - 1) : j \in used
         IN  <<id>> \o uuid4(used \cup {id}, n - 1)

\* the ids in ascending id order, whatever the key
RECURSIVE order_by_id(_, _)
order_by_id(ids, key) ==
    IF ids = {}
    THEN <<>>
    ELSE LET first == CHOOSE i \in ids : \A j \in ids : i <= j
         IN  <<first>> \o order_by_id(ids \ {first}, key)

\* ORDER BY key: the ids in ascending key order
RECURSIVE order_by(_, _)
order_by(ids, key) ==
    IF ids = {}
    THEN <<>>
    ELSE LET first == CHOOSE i \in ids :
                          \A j \in ids : key[i] < key[j] \/ (key[i] = key[j] /\ i <= j)
         IN  <<first>> \o order_by(ids \ {first}, key)

\* a WorkflowStep() with every column at its default; status, expert_notes and
\* extraction_voice_transcript are not kept
NullStep ==
    [workflow_id              |-> 0,
     task_id                  |-> <<>>,
     name                     |-> <<>>,
     step_order               |-> 0,
     context_type             |-> <<>>,
     context_image_url        |-> <<>>,
     context_text_content     |-> <<>>,
     context_voice_transcript |-> <<>>,
     context_description      |-> <<>>,
     extraction_keywords      |-> <<>>,
     logic_strategy           |-> <<>>,
     logic_rule_expression    |-> <<>>,
     logic_evaluation_prompt  |-> <<>>,
     routing_default_next     |-> <<>>]

ContextType == {"image", "text", "voice"}

ck_context_type(step) ==
    step.context_type = <<>> \/ step.context_type[1] \in ContextType

ck_logic_strategy_open(step) == TRUE

ck_logic_strategy(step) ==
    step.logic_strategy = <<>> \/ step.logic_strategy[1] \in {rule_based, few_shot}

\* UniqueConstraint("workflow_id", "step_order")
uq_workflow_step_order(tbl) ==
    Cardinality({<<tbl[id].workflow_id, tbl[id].step_order>> : id \in DOMAIN tbl})
        = Cardinality(DOMAIN tbl)

\* the constraints of workflow_steps
IntegrityError(tbl) ==
    \/ ~uq_workflow_step_order(tbl)
    \/ \E id \in DOMAIN tbl :
           \/ ~ck_context_type(tbl[id])
           \/ ~ck_logic_strategy(tbl[id])

\* Workflow.steps / Workflow.tasks / Task.steps: the relationships and their order_by
Workflow_steps(tbl, workflow_id) ==
    LET ids == {id \in DOMAIN tbl : tbl[id].workflow_id = workflow_id}
    IN  order_by(ids, [id \in ids |-> tbl[id].step_order])

Workflow_tasks(tbl, workflow_id) ==
    LET ids == {id \in DOMAIN tbl : tbl[id].workflow_id = workflow_id}
    IN  order_by(ids, [id \in ids |-> tbl[id].task_order])

Task_steps(tbl, task_id) ==
    LET ids == {id \in DOMAIN tbl : tbl[id].task_id = <<task_id>>}
    IN  order_by(ids, [id \in ids |-> tbl[id].step_order])

(***************************************************************************)
(* app/services/template.py                                                *)
(***************************************************************************)
Digit == <<"1", "2", "3", "4", "5", "6", "7", "8", "9">>

\* the first PresetCount templates, each with its first PresetTaskCount tasks of
\* PresetStepCount steps; the Chinese names are glossed by a letter and the indexes
PRESET_TEMPLATES ==
    [t \in 1..PresetCount |->
        [name  |-> <<"t", Digit[t]>>,
         tasks |-> [j \in 1..PresetTaskCount |->
            [name  |-> <<"k", Digit[j]>>,
             steps |-> [k \in 1..PresetStepCount |->
                [name                |-> <<"s", Digit[j], Digit[k]>>,
                 context_description |-> <<"d", Digit[j], Digit[k]>>]]]]]]

\* db.add of one row per key: rows[n] is stored under ids[n]
add_all(tbl, ids, rows) ==
    [id \in Range(ids) |-> rows[CHOOSE n \in DOMAIN ids : ids[n] = id]] @@ tbl

get_templates(db) == {id \in DOMAIN db : db[id].is_template}

get_template_by_id(db, template_id) ==
    IF template_id \in DOMAIN db /\ db[template_id].is_template
    THEN <<template_id>> ELSE <<>>

\* the new workflows row
create_workflow_from_template(db, new_id, template_id) ==
    IF get_template_by_id(db, template_id) = <<>>
    THEN [db |-> db, result |-> NoneDict, raised |-> FALSE]
    ELSE LET workflow == [name |-> SubmittedName, status |-> "draft",
                          is_template |-> FALSE, template_id |-> <<template_id>>]
             c == commit(db, (new_id :> workflow) @@ db)
         IN  IF c.ok
             THEN [db |-> c.db, raised |-> FALSE,
                   result |-> WorkflowResponse(c.db, new_id)]
             ELSE [db |-> c.db, raised |-> TRUE, result |-> NoneDict]

\* the steps of the template's tasks in copy order: task by task_order, step by
\* step_order; task is the position of the task in src_tasks
RECURSIVE template_steps(_, _, _)
template_steps(src_tasks, steps_tbl, n) ==
    IF n > Len(src_tasks)
    THEN <<>>
    ELSE LET src_steps == Task_steps(steps_tbl, src_tasks[n])
         IN  [k \in 1..Len(src_steps) |-> [task |-> n, step |-> src_steps[k]]]
             \o template_steps(src_tasks, steps_tbl, n + 1)

\* the tasks and steps create_workflow_from_template copies under the new workflow
create_workflow_from_template_rows(tasks_tbl, steps_tbl, new_id, template_id) ==
    LET src_tasks == Workflow_tasks(tasks_tbl, template_id)
        task_ids  == uuid4(DOMAIN tasks_tbl, Len(src_tasks))
        src_steps == template_steps(src_tasks, steps_tbl, 1)
        step_ids  == uuid4(DOMAIN steps_tbl, Len(src_steps))
        new_task(n) == [workflow_id |-> new_id,
                        name        |-> tasks_tbl[src_tasks[n]].name,
                        task_order  |-> tasks_tbl[src_tasks[n]].task_order]
        new_step(n) == [NullStep EXCEPT
                           !.workflow_id = new_id,
                           !.task_id = <<task_ids[src_steps[n].task]>>,
                           !.name = steps_tbl[src_steps[n].step].name,
                           !.step_order = n,
                           !.context_description =
                               steps_tbl[src_steps[n].step].context_description]
    IN  [tasks |-> add_all(tasks_tbl, task_ids,
                          [n \in DOMAIN task_ids |-> new_task(n)]),
         steps |-> add_all(steps_tbl, step_ids,
                          [n \in DOMAIN step_ids |-> new_step(n)])]

\* the tasks and steps init_preset_templates creates: step_order restarts at 1 in
\* every template and runs on across its tasks
init_preset_templates_rows(tasks_tbl, steps_tbl, first_id) ==
    LET task_ids == uuid4(DOMAIN tasks_tbl, PresetCount * PresetTaskCount)
        step_ids == uuid4(DOMAIN steps_tbl,
                          PresetCount * PresetTaskCount * PresetStepCount)
        template_of(task_n) == ((task_n - 1) \div PresetTaskCount) + 1
        order_of(task_n)    == ((task_n - 1) % PresetTaskCount) + 1
        new_task(n) ==
            [workflow_id |-> first_id + template_of(n) - 1,
             name        |-> PRESET_TEMPLATES[template_of(n)].tasks[order_of(n)].name,
             task_order  |-> order_of(n)]
        new_step(n) ==
            LET task_n == ((n - 1) \div PresetStepCount) + 1
                k      == ((n - 1) % PresetStepCount) + 1
                data   == PRESET_TEMPLATES[template_of(task_n)]
                              .tasks[order_of(task_n)].steps[k]
            IN  [NullStep EXCEPT
                    !.workflow_id = first_id + template_of(task_n) - 1,
                    !.task_id = <<task_ids[task_n]>>,
                    !.name = data.name,
                    !.step_order = (order_of(task_n) - 1) * PresetStepCount + k,
                    !.context_description = <<data.context_description>>]
    IN  [tasks |-> add_all(tasks_tbl, task_ids,
                          [n \in DOMAIN task_ids |-> new_task(n)]),
         steps |-> add_all(steps_tbl, step_ids,
                          [n \in DOMAIN step_ids |-> new_step(n)])]

\* the first PresetCount entries of PRESET_TEMPLATES, created when no template exists
init_preset_templates(db, first_id) ==
    IF get_templates(db) # {}
    THEN [db |-> db, result |-> [count |-> 0], raised |-> FALSE]
    ELSE LET created == [id \in first_id..(first_id + PresetCount - 1) |->
                            [name |-> PRESET_TEMPLATES[id - first_id + 1].name,
                             status |-> "draft", is_template |-> TRUE,
                             template_id |-> <<>>]]
             c == commit(db, created @@ db)
         IN  IF c.ok
             THEN [db |-> c.db, raised |-> FALSE, result |-> [count |-> PresetCount]]
             ELSE [db |-> c.db, raised |-> TRUE, result |-> NoneDict]

(***************************************************************************)
(* The routers: one action per endpoint.  A service result of None (or a   *)
(* NotFound error) becomes 404, an exception nobody catches becomes 500.   *)
(***************************************************************************)
NoMove == [op |-> "none"]

\* history: the request just answered, if it was an advance or a rollback of an
\* existing workflow, with the status that workflow had when it arrived
LastMove ==
    IF request.op \in {"advance", "rollback"} /\ response.result # NoneDict
    THEN [op |-> request.op,
          workflow_id |-> request.workflow_id,
          success |-> response.result.success,
          status |-> before[request.workflow_id].status]
    ELSE NoMove

Answer(op, workflow_id, status, out, ok_code) ==
    /\ before' = workflows
    /\ workflows' = out.db
    /\ request' = [op |-> op, workflow_id |-> workflow_id, status |-> status]
    /\ response' = [http |-> IF out.raised THEN 500
                             ELSE IF out.result = NoneDict THEN 404
                             ELSE ok_code,
                    result |-> out.result]

router_get_workflow_status(workflow_id) ==
    /\ Answer("get_status", workflow_id, None,
              get_workflow_status(workflows, workflow_id), 200)
    /\ UNCHANGED <<next_uuid, mapping_vars, table_vars, sessions>>

router_transition_workflow_status(workflow_id, new_status) ==
    /\ Answer("transition", workflow_id, new_status,
              transition_workflow_status(workflows, workflow_id, new_status), 200)
    /\ UNCHANGED <<next_uuid, mapping_vars, table_vars, sessions>>

router_advance_workflow_status(workflow_id) ==
    /\ Answer("advance", workflow_id, None,
              advance_workflow_status(workflows, workflow_id), 200)
    /\ UNCHANGED <<next_uuid, mapping_vars, table_vars, sessions>>

router_rollback_workflow_status(workflow_id) ==
    /\ Answer("rollback", workflow_id, None,
              rollback_workflow_status(workflows, workflow_id), 200)
    /\ UNCHANGED <<next_uuid, mapping_vars, table_vars, sessions>>

router_create_workflow(status) ==
    /\ next_uuid <= MaxWorkflows
    /\ LET out == create_workflow(workflows, next_uuid, status) IN
       /\ Answer("create", next_uuid, status, out, 201)
       /\ next_uuid' = IF out.raised THEN next_uuid ELSE next_uuid + 1
    /\ UNCHANGED <<mapping_vars, table_vars, sessions>>

router_update_workflow(workflow_id, status) ==
    /\ Answer("update", workflow_id, status,
              update_workflow(workflows, workflow_id, status), 200)
    /\ UNCHANGED <<next_uuid, mapping_vars, table_vars, sessions>>

\* db.commit() of a template operation: the rows of all three tables or none
commit_rows(out, rows) ==
    IF ~out.raised /\ out.result # NoneDict /\ IntegrityError(rows.steps)
    THEN [db |-> workflows, raised |-> TRUE, result |-> NoneDict]
    ELSE out

router_create_from_template(template_id) ==
    /\ get_template_by_id(workflows, template_id) # <<>> => next_uuid <= MaxWorkflows
    /\ LET rows == create_workflow_from_template_rows(tasks, steps, next_uuid,
                                                      template_id)
           out  == commit_rows(create_workflow_from_template(workflows, next_uuid,
                                                             template_id), rows)
           created == ~out.raised /\ out.result # NoneDict
       IN
       /\ Answer("create_from_template", template_id, None, out, 200)
       /\ next_uuid' = IF created THEN next_uuid + 1 ELSE next_uuid
       /\ tasks' = IF created THEN rows.tasks ELSE tasks
       /\ steps' = IF created THEN rows.steps ELSE steps
    /\ UNCHANGED <<mapping_vars, examples, routing_branches, notes, sessions>>

router_init_templates ==
    /\ get_templates(workflows) = {} => next_uuid + PresetCount - 1 <= MaxWorkflows
    /\ LET rows == init_preset_templates_rows(tasks, steps, next_uuid)
           out  == commit_rows(init_preset_templates(workflows, next_uuid), rows)
           created == ~out.raised /\ out.result.count > 0
       IN
       /\ Answer("init_templates", next_uuid, None, out, 200)
       /\ next_uuid' = IF out.raised THEN next_uuid ELSE next_uuid + out.result.count
       /\ tasks' = IF created THEN rows.tasks ELSE tasks
       /\ steps' = IF created THEN rows.steps ELSE steps
    /\ UNCHANGED <<mapping_vars, examples, routing_branches, notes, sessions>>

InitStatus ==
    /\ workflows = <<>>
    /\ next_uuid = 1
    /\ request = [op |-> "none", workflow_id |-> 1, status |-> None]
    /\ response = [http |-> 0, result |-> NoneDict]
    /\ before = <<>>
    /\ prev = NoMove
    /\ tasks = <<>>
    /\ steps = <<>>
    /\ examples = <<>>
    /\ routing_branches = <<>>
    /\ notes = <<>>
    /\ sessions = [session \in Sessions |-> Idle]

Init ==
    /\ InitStatus
    /\ strategy_in = <<>>
    /\ strategy_out = <<>>

Next ==
    \/ \E workflow_id \in WorkflowIds :
           router_get_workflow_status(workflow_id) /\ UNCHANGED prev
    \/ \E workflow_id \in WorkflowIds, new_status \in StatusStrings :
           router_transition_workflow_status(workflow_id, new_status) /\ UNCHANGED prev
    \/ \E workflow_id \in WorkflowIds :
           router_advance_workflow_status(workflow_id) /\ UNCHANGED prev
    \/ \E workflow_id \in WorkflowIds :
           router_rollback_workflow_status(workflow_id) /\ UNCHANGED prev
    \/ \E status \in WorkflowStatus :
           router_create_workflow(status) /\ UNCHANGED prev
    \/ \E workflow_id \in WorkflowIds, status \in WorkflowStatus \cup {None} :
           router_update_workflow(workflow_id, status) /\ UNCHANGED prev
    \/ \E template_id \in WorkflowIds :
           router_create_from_template(template_id) /\ UNCHANGED prev
    \/ router_init_templates /\ UNCHANGED prev

Spec == Init /\ [][Next]_vars

(***************************************************************************)
(* SpecMoves: workflows created in any status and then advanced and rolled *)
(* back, with the previous move remembered in prev.                        *)
(***************************************************************************)
NextMoves ==
    \/ \E status \in WorkflowStatus :
           router_create_workflow(status) /\ prev' = LastMove
    \/ \E workflow_id \in WorkflowIds :
           router_advance_workflow_status(workflow_id) /\ prev' = LastMove
    \/ \E workflow_id \in WorkflowIds :
           router_rollback_workflow_status(workflow_id) /\ prev' = LastMove

SpecMoves == Init /\ [][NextMoves]_vars

(***************************************************************************)
(* app/services/protocol.py: the logic-strategy mapping.  A Python str is  *)
(* the sequence of its characters, so that str.upper() is computed.        *)
(***************************************************************************)
RULE_BASED == <<"R", "U", "L", "E", "_", "B", "A", "S", "E", "D">>
SEMANTIC_SIMILARITY ==
    <<"S", "E", "M", "A", "N", "T", "I", "C", "_",
      "S", "I", "M", "I", "L", "A", "R", "I", "T", "Y">>

ascii_lowercase ==
    <<"a", "b", "c", "d", "e", "f", "g", "h", "i", "j", "k", "l", "m",
      "n", "o", "p", "q", "r", "s", "t", "u", "v", "w", "x", "y", "z">>
ascii_uppercase ==
    <<"A", "B", "C", "D", "E", "F", "G", "H", "I", "J", "K", "L", "M",
      "N", "O", "P", "Q", "R", "S", "T", "U", "V", "W", "X", "Y", "Z">>

\* str.upper(), character by character
upper_char(c) ==
    IF \E i \in DOMAIN ascii_lowercase : ascii_lowercase[i] = c
    THEN ascii_uppercase[CHOOSE i \in DOMAIN ascii_lowercase : ascii_lowercase[i] = c]
    ELSE c

upper(str) == [i \in DOMAIN str |-> upper_char(str[i])]

LOGIC_STRATEGY_MAPPING ==
    [k \in {rule_based, few_shot} |->
        IF k = rule_based THEN RULE_BASED ELSE SEMANTIC_SIMILARITY]

\* internal_value is an Optional[str]: <<>> is None, <<str>> a string
map_logic_strategy_to_protocol(internal_value) ==
    IF internal_value = <<>>
    THEN RULE_BASED
    ELSE Get(LOGIC_STRATEGY_MAPPING, internal_value[1], upper(internal_value[1]))

\* the arguments tried: None, the two stored values, the two wire values, and
\* every string of at most MaxStrLen characters over a small alphabet
StrategyAlphabet == {"f", "s", "F", "_"}
StrategyStrings ==
    {rule_based, few_shot, RULE_BASED, SEMANTIC_SIMILARITY}
        \cup UNION {[1..n -> StrategyAlphabet] : n \in 0..MaxStrLen}
StrategyInputs == {<<>>} \cup {<<str>> : str \in StrategyStrings}

call_map_logic_strategy_to_protocol ==
    /\ strategy_out = <<>>
    /\ strategy_out' = <<map_logic_strategy_to_protocol(strategy_in)>>
    /\ UNCHANGED <<strategy_in, status_vars, table_vars, sessions>>

InitMapping ==
    /\ InitStatus
    /\ strategy_in \in StrategyInputs
    /\ strategy_out = <<>>

NextMapping == call_map_logic_strategy_to_protocol

SpecMapping == InitMapping /\ [][NextMapping]_vars

(***************************************************************************)
(* app/services/protocol.py: ProtocolService, the projection of a stored   *)
(* workflow to the Protocol JSON.  db is the record of the five tables.    *)
(***************************************************************************)
\* Python truthiness of an Optional[str] or Optional[list]: neither None nor empty
truthy(value) == value # <<>> /\ value[1] # <<>>

\* value or default
or_default(value, default) == IF truthy(value) THEN value[1] ELSE default

\* s[:n]
slice(s, n) == SubSeq(s, 1, IF Len(s) < n THEN Len(s) ELSE n)

\* sep.join(items)
RECURSIVE join(_, _)
join(sep, items) ==
    IF items = <<>> THEN <<>>
    ELSE IF Len(items) = 1 THEN items[1]
    ELSE items[1] \o sep \o join(sep, Tail(items))

\* the characters str.strip() removes, as far as the model writes them
whitespace == {" ", "\t", "\n"}

RECURSIVE lstrip(_)
lstrip(s) == IF s # <<>> /\ s[1] \in whitespace THEN lstrip(Tail(s)) ELSE s

RECURSIVE rstrip(_)
rstrip(s) ==
    IF s # <<>> /\ s[Len(s)] \in whitespace
    THEN rstrip(SubSeq(s, 1, Len(s) - 1))
    ELSE s

strip(s) == rstrip(lstrip(s))

\* str(uuid): the canonical text of a primary key
str_uuid(id) == [hex |-> id]

general == <<"g", "e", "n", "e", "r", "a", "l">>
next == <<"n", "e", "x", "t">>
judgment_result ==
    <<"j", "u", "d", "g", "m", "e", "n", "t", "_", "r", "e", "s", "u", "l", "t">>
keywords_open == <<" ", "[", "K", "e", "y", "w", "o", "r", "d", "s", ":", " ">>
keywords_close == <<"]">>
comma == <<",", " ">>

\* WorkflowStep.examples and WorkflowStep.routing_branches: relationships without
\* order_by, the rows of the step in stored order
Step_examples(db, step_id) ==
    SelectSeq(db.examples, LAMBDA example : example.step_id = step_id)

Step_routing_branches(db, step_id) ==
    SelectSeq(db.routing_branches, LAMBDA branch : branch.step_id = step_id)

_extract_business_domain(db, step) ==
    IF truthy(step.context_description)
    THEN slice(step.context_description[1], 100)
    ELSE IF step.workflow_id \in DOMAIN db.workflows
            /\ db.workflows[step.workflow_id].name # <<>>
    THEN db.workflows[step.workflow_id].name
    ELSE general

_build_input_spec_unstripped(step) ==
    LET data_source ==
            IF step.context_type # <<>> /\ step.context_type[1] # ""
            THEN step.context_type[1] ELSE "unknown"
        target_section ==
            IF truthy(step.context_image_url)
            THEN step.context_image_url[1]
            ELSE IF truthy(step.context_text_content)
            THEN slice(step.context_text_content[1], 200)
            ELSE IF truthy(step.context_voice_transcript)
            THEN slice(step.context_voice_transcript[1], 200)
            ELSE <<>>
        context_description == or_default(step.context_description, <<>>)
    IN  [data_source    |-> data_source,
         target_section |-> target_section,
         context_description |->
             IF truthy(step.extraction_keywords)
             THEN context_description \o keywords_open
                  \o join(comma, step.extraction_keywords[1]) \o keywords_close
             ELSE context_description]

_build_input_spec(step) ==
    LET data_source ==
            IF step.context_type # <<>> /\ step.context_type[1] # ""
            THEN step.context_type[1] ELSE "unknown"
        target_section ==
            IF truthy(step.context_image_url)
            THEN step.context_image_url[1]
            ELSE IF truthy(step.context_text_content)
            THEN slice(step.context_text_content[1], 200)
            ELSE IF truthy(step.context_voice_transcript)
            THEN slice(step.context_voice_transcript[1], 200)
            ELSE <<>>
        context_description == or_default(step.context_description, <<>>)
    IN  [data_source    |-> data_source,
         target_section |-> target_section,
         context_description |->
             IF truthy(step.extraction_keywords)
             THEN strip(context_description \o keywords_open
                        \o join(comma, step.extraction_keywords[1])
                        \o keywords_close)
             ELSE context_description]

_convert_example_to_protocol_pass(example) ==
    [content     |-> example.content,
     label       |-> "PASS",
     description |-> or_default(example.description, <<>>)]

_convert_example_to_protocol(example) ==
    [content     |-> example.content,
     label       |-> example.label,
     description |-> or_default(example.description, <<>>)]

_build_logic_config_any_strategy(db, step_id) ==
    LET step == db.steps[step_id]
        step_examples == Step_examples(db, step_id)
    IN  [logic_strategy    |-> map_logic_strategy_to_protocol(step.logic_strategy),
         rule_expression   |-> step.logic_rule_expression,
         few_shot_examples |->
             IF step_examples # <<>>
             THEN <<[n \in DOMAIN step_examples |->
                        _convert_example_to_protocol(step_examples[n])]>>
             ELSE <<>>,
         evaluation_prompt |-> step.logic_evaluation_prompt]

_build_logic_config(db, step_id) ==
    LET step == db.steps[step_id]
        step_examples == Step_examples(db, step_id)
    IN  [logic_strategy    |-> map_logic_strategy_to_protocol(step.logic_strategy),
         rule_expression   |-> step.logic_rule_expression,
         few_shot_examples |->
             IF step.logic_strategy = <<few_shot>> /\ step_examples # <<>>
             THEN <<[n \in DOMAIN step_examples |->
                        _convert_example_to_protocol(step_examples[n])]>>
             ELSE <<>>,
         evaluation_prompt |-> step.logic_evaluation_prompt]

_convert_branch_to_protocol_swapped(branch) ==
    [condition_result |-> branch.condition_result,
     action_type      |-> branch.next_step_id,
     next_step_id     |-> branch.action_type]

_convert_branch_to_protocol(branch) ==
    [condition_result |-> branch.condition_result,
     action_type      |-> branch.action_type,
     next_step_id     |-> branch.next_step_id]

_build_routing_map_null_only(db, step_id) ==
    LET step_branches == Step_routing_branches(db, step_id)
        default_next == db.steps[step_id].routing_default_next
    IN  [default_next |-> IF default_next = <<>> THEN next ELSE default_next[1],
         branches     |-> [n \in DOMAIN step_branches |->
                              _convert_branch_to_protocol(step_branches[n])]]

_build_routing_map(db, step_id) ==
    LET step_branches == Step_routing_branches(db, step_id)
    IN  [default_next |-> or_default(db.steps[step_id].routing_default_next, next),
         branches     |-> [n \in DOMAIN step_branches |->
                              _convert_branch_to_protocol(step_branches[n])]]

_build_output_schema_bare(step) ==
    [fields |-> IF truthy(step.extraction_keywords)
                THEN [n \in DOMAIN step.extraction_keywords[1] |->
                         [name |-> step.extraction_keywords[1][n], type |-> "string"]]
                ELSE <<[name |-> judgment_result, type |-> "string"]>>]

_build_output_schema(step) ==
    LET fields == IF truthy(step.extraction_keywords)
                  THEN [n \in DOMAIN step.extraction_keywords[1] |->
                           [name |-> step.extraction_keywords[1][n], type |-> "string"]]
                  ELSE <<>>
    IN  [fields |-> fields \o <<[name |-> judgment_result, type |-> "string"]>>]

_convert_step_to_protocol(db, step_id) ==
    [step_id         |-> str_uuid(step_id),
     step_name       |-> db.steps[step_id].name,
     business_domain |-> _extract_business_domain(db, db.steps[step_id]),
     input_spec      |-> _build_input_spec(db.steps[step_id]),
     logic_config    |-> _build_logic_config(db, step_id),
     routing_map     |-> _build_routing_map(db, step_id),
     output_schema   |-> _build_output_schema(db.steps[step_id])]

\* pydantic: ProtocolLogicConfig.logic_strategy and ProtocolFewShotExample.label
\* are Literal fields
ValidationError(protocol_step) ==
    \/ protocol_step.logic_config.logic_strategy
           \notin {RULE_BASED, SEMANTIC_SIMILARITY}
    \/ /\ protocol_step.logic_config.few_shot_examples # <<>>
       /\ \E example \in Range(protocol_step.logic_config.few_shot_examples[1]) :
              example.label \notin {"PASS", "FAIL"}

_convert_workflow_to_protocol(db, workflow_id) ==
    LET workflow_steps == Workflow_steps(db.steps, workflow_id)
    IN  [workflow_id   |-> str_uuid(workflow_id),
         workflow_name |-> db.workflows[workflow_id].name,
         steps         |-> [n \in DOMAIN workflow_steps |->
                               _convert_step_to_protocol(db, workflow_steps[n])]]

\* what a service call leaves: the tables, the value returned and the exception
\* raised ("" when none)
Returned(db, result) == [db |-> db, result |-> result, error |-> ""]
Raised(db, error) == [db |-> db, result |-> NoneDict, error |-> error]

\* a projector that also renumbers the steps it reads from 0
generate_protocol_renumbering(db, workflow_id) ==
    IF workflow_id \notin DOMAIN db.workflows
    THEN Raised(db, "WorkflowNotFoundError")
    ELSE LET workflow_steps == Workflow_steps(db.steps, workflow_id)
             renumbered ==
                 [id \in DOMAIN db.steps |->
                     IF db.steps[id].workflow_id = workflow_id
                     THEN [db.steps[id] EXCEPT !.step_order =
                              (CHOOSE n \in DOMAIN workflow_steps :
                                   workflow_steps[n] = id) - 1]
                     ELSE db.steps[id]]
         IN  Returned([db EXCEPT !.steps = renumbered],
                      _convert_workflow_to_protocol(db, workflow_id))

generate_protocol(db, workflow_id) ==
    IF workflow_id \notin DOMAIN db.workflows
    THEN Raised(db, "WorkflowNotFoundError")
    ELSE LET protocol == _convert_workflow_to_protocol(db, workflow_id)
         IN  IF \E protocol_step \in Range(protocol.steps) :
                    ValidationError(protocol_step)
             THEN Raised(db, "ValidationError")
             ELSE Returned(db, protocol)

(***************************************************************************)
(* app/repositories/step.py, app/services/step.py                          *)
(***************************************************************************)
\* WorkflowStepResponse / StepResponse, the fields the model keeps
WorkflowStepResponse(db, step_id) ==
    [id          |-> step_id,
     workflow_id |-> db.steps[step_id].workflow_id,
     step_order  |-> db.steps[step_id].step_order]

\* a check that finds no order taken
check_order_exists_never(db, workflow_id, step_order) == FALSE

check_order_exists(db, workflow_id, step_order) ==
    \E id \in DOMAIN db.steps :
        /\ db.steps[id].workflow_id = workflow_id
        /\ db.steps[id].step_order = step_order

\* SELECT max(step_order): <<>> when the workflow has no step
max_step_order(db, workflow_id) ==
    LET orders == {db.steps[id].step_order :
                      id \in {i \in DOMAIN db.steps : db.steps[i].workflow_id = workflow_id}}
    IN  IF orders = {} THEN <<>>
        ELSE <<CHOOSE o \in orders : \A other \in orders : other <= o>>

get_max_order(db, workflow_id) ==
    IF max_step_order(db, workflow_id) = <<>> THEN -1
    ELSE max_step_order(db, workflow_id)[1]

\* StepRepository.create: db.add, db.commit
StepRepository_create(db, step) ==
    LET id == uuid4(DOMAIN db.steps, 1)[1]
        pending == (id :> step) @@ db.steps
    IN  IF IntegrityError(pending)
        THEN Raised(db, "IntegrityError")
        ELSE Returned([db EXCEPT !.steps = pending],
                      WorkflowStepResponse([db EXCEPT !.steps = pending], id))

\* WorkflowStep(workflow_id=..., name=data.name, ...): the columns of data
WorkflowStep(workflow_id, task_id, step_order, data) ==
    [k \in DOMAIN NullStep |->
        IF k = "workflow_id" THEN workflow_id
        ELSE IF k = "task_id" THEN task_id
        ELSE IF k = "step_order" THEN step_order
        ELSE IF k \in DOMAIN data THEN data[k]
        ELSE NullStep[k]]

\* create_step that neither checks the order nor is held by uq_workflow_step_order
create_step_unguarded(db, workflow_id, data) ==
    IF workflow_id \notin DOMAIN db.workflows
    THEN Raised(db, "WorkflowNotFoundError")
    ELSE LET id == uuid4(DOMAIN db.steps, 1)[1]
             pending == (id :> WorkflowStep(workflow_id, <<>>, data.step_order, data))
                        @@ db.steps
         IN  Returned([db EXCEPT !.steps = pending],
                      WorkflowStepResponse([db EXCEPT !.steps = pending], id))

create_step(db, workflow_id, data) ==
    IF workflow_id \notin DOMAIN db.workflows
    THEN Raised(db, "WorkflowNotFoundError")
    ELSE IF check_order_exists(db, workflow_id, data.step_order)
    THEN Raised(db, "StepOrderConflictError")
    ELSE StepRepository_create(db, WorkflowStep(workflow_id, <<>>, data.step_order, data))

\* an append that numbers the new step by the count of the workflow's steps
create_step_auto_order_by_count(db, workflow_id, data) ==
    IF workflow_id \notin DOMAIN db.workflows
    THEN Raised(db, "WorkflowNotFoundError")
    ELSE StepRepository_create(
             db, WorkflowStep(workflow_id, <<>>,
                              Cardinality({id \in DOMAIN db.steps :
                                              db.steps[id].workflow_id = workflow_id}),
                              data))

create_step_auto_order(db, workflow_id, data) ==
    IF workflow_id \notin DOMAIN db.workflows
    THEN Raised(db, "WorkflowNotFoundError")
    ELSE StepRepository_create(
             db, WorkflowStep(workflow_id, <<>>, get_max_order(db, workflow_id) + 1, data))

\* update_data is model_dump(exclude_unset=True): its keys are the fields the
\* request sets; step_order is <<>> for a JSON null
update_step(db, step_id, update_data) ==
    IF step_id \notin DOMAIN db.steps
    THEN Raised(db, "StepNotFoundError")
    ELSE LET step == db.steps[step_id]
             sets_order == "step_order" \in DOMAIN update_data
         IN  IF /\ sets_order
                /\ update_data.step_order # <<>>
                /\ update_data.step_order[1] # step.step_order
                /\ check_order_exists(db, step.workflow_id, update_data.step_order[1])
             THEN Raised(db, "StepOrderConflictError")
             ELSE IF sets_order /\ update_data.step_order = <<>>
             THEN Raised(db, "IntegrityError")
             ELSE LET updated ==
                          [k \in DOMAIN step |->
                              IF k \notin DOMAIN update_data THEN step[k]
                              ELSE IF k = "step_order" THEN update_data[k][1]
                              ELSE update_data[k]]
                      pending == [db.steps EXCEPT ![step_id] = updated]
                  IN  IF IntegrityError(pending)
                      THEN Raised(db, "IntegrityError")
                      ELSE Returned([db EXCEPT !.steps = pending],
                                    WorkflowStepResponse([db EXCEPT !.steps = pending],
                                                         step_id))

\* StepRepository.delete: the step goes with its examples, branches and notes
\* (cascade)
StepRepository_delete(db, step_id) ==
    [db EXCEPT
        !.steps = [id \in DOMAIN db.steps \ {step_id} |-> db.steps[id]],
        !.examples = SelectSeq(db.examples, LAMBDA example : example.step_id # step_id),
        !.routing_branches =
            SelectSeq(db.routing_branches, LAMBDA branch : branch.step_id # step_id),
        !.notes = SelectSeq(db.notes, LAMBDA note : note.step_id # step_id)]

\* the flush of reorder_steps_after_delete: one UPDATE per step, emitted in
\* primary-key order (pk_order), each checked against uq_workflow_step_order
RECURSIVE flush_reorder(_, _)
flush_reorder(tbl, pk_order) ==
    IF pk_order = <<>>
    THEN [ok |-> TRUE, steps |-> tbl]
    ELSE LET updated == [tbl EXCEPT ![Head(pk_order)].step_order = @ - 1]
         IN  IF uq_workflow_step_order(updated)
             THEN flush_reorder(updated, Tail(pk_order))
             ELSE [ok |-> FALSE, steps |-> tbl]

\* the steps reorder_steps_after_delete selects
steps_after(db, workflow_id, deleted_order) ==
    {id \in DOMAIN db.steps : /\ db.steps[id].workflow_id = workflow_id
                              /\ db.steps[id].step_order > deleted_order}

reorder_steps_after_delete(db, workflow_id, deleted_order, pk_order) ==
    LET flushed == flush_reorder(db.steps, pk_order)
    IN  IF flushed.ok
        THEN Returned([db EXCEPT !.steps = flushed.steps], NoneDict)
        ELSE Raised(db, "IntegrityError")

\* the orders in which primary keys can sort the rows of ids
PrimaryKeyOrders(ids) ==
    {pk_order \in [1..Cardinality(ids) -> ids] :
        \A a, b \in DOMAIN pk_order : a # b => pk_order[a] # pk_order[b]}

\* delete_step: the delete is committed before the reordering starts
delete_step(db, step_id, pk_order) ==
    IF step_id \notin DOMAIN db.steps
    THEN Raised(db, "StepNotFoundError")
    ELSE reorder_steps_after_delete(StepRepository_delete(db, step_id),
                                    db.steps[step_id].workflow_id,
                                    db.steps[step_id].step_order, pk_order)

(***************************************************************************)
(* app/routers/step_simple.py                                              *)
(***************************************************************************)
create_step_for_task(db, task_id, data) ==
    IF task_id \notin DOMAIN db.tasks
    THEN Raised(db, "NotFound")
    ELSE LET workflow_id == db.tasks[task_id].workflow_id
             next_order == (IF max_step_order(db, workflow_id) = <<>> THEN 0
                            ELSE max_step_order(db, workflow_id)[1]) + 1
         IN  StepRepository_create(
                 db, WorkflowStep(workflow_id, <<task_id>>, next_order,
                                  [name |-> data.name]))

delete_step_simple(db, step_id) ==
    IF step_id \notin DOMAIN db.steps
    THEN Raised(db, "NotFound")
    ELSE Returned(StepRepository_delete(db, step_id), [message |-> "deleted"])

(***************************************************************************)
(* app/routers/protocol.py, and the answer of every router that works on   *)
(* the five tables: a NotFound error is 404, a conflict 409, any other     *)
(* exception 500.                                                          *)
(***************************************************************************)
Db == [workflows        |-> workflows,
       tasks            |-> tasks,
       steps            |-> steps,
       examples         |-> examples,
       routing_branches |-> routing_branches,
       notes            |-> notes]

HTTPException(error, ok_code) ==
    IF error = "" THEN ok_code
    ELSE IF error \in {"WorkflowNotFoundError", "StepNotFoundError", "ExampleNotFoundError",
                      "NotFound"} THEN 404
    ELSE IF error = "StepOrderConflictError" THEN 409
    ELSE 500

AnswerDb(op, workflow_id, out, ok_code) ==
    /\ before' = workflows
    /\ workflows' = out.db.workflows
    /\ tasks' = out.db.tasks
    /\ steps' = out.db.steps
    /\ examples' = out.db.examples
    /\ routing_branches' = out.db.routing_branches
    /\ notes' = out.db.notes
    /\ request' = [op |-> op, workflow_id |-> workflow_id, status |-> None]
    /\ response' = [http |-> HTTPException(out.error, ok_code), result |-> out.result]
    /\ UNCHANGED <<mapping_vars, sessions>>

get_protocol(workflow_id) ==
    /\ AnswerDb("get_protocol", workflow_id, generate_protocol(Db, workflow_id), 200)
    /\ UNCHANGED next_uuid

(***************************************************************************)
(* SpecProtocol: the projector applied to stored workflows.  Init draws    *)
(* the tables: workflow 1 is named, workflow 2 has the empty name; step 1  *)
(* varies one group of columns at a time; step 2, when present, is a       *)
(* few_shot step of workflow 1 with one example and one branch, stored     *)
(* before the rows of step 1.                                              *)
(***************************************************************************)
LongText == [i \in 1..201 |-> "x"]

TextSamples == {<<>>, <<<<>>>>, <<<<" ">>>>, <<<<"d">>>>, <<<<" ", "d">>>>, <<LongText>>}
KeywordSamples == {<<>>, <<<<>>>>, <<<<<<"k">>>>>>, <<<<<<"k">>, <<"j", "2">>>>>>}

ExampleSamples ==
    {[content |-> <<"c">>, label |-> "PASS", description |-> <<<<"e">>>>],
     [content |-> <<"b">>, label |-> "FAIL", description |-> <<>>]}

BranchSamples ==
    {[condition_result |-> <<"F", "A", "I", "L">>, action_type |-> <<"j">>,
      next_step_id |-> <<"e", "n", "d">>],
     [condition_result |-> <<"P", "A", "S", "S">>, action_type |-> <<"g">>,
      next_step_id |-> <<"2">>]}

\* the lists of at most n elements of S
Lists(S, n) == UNION {[1..m -> S] : m \in 0..n}

SampleStep == [NullStep EXCEPT !.workflow_id = 1, !.name = <<"s">>, !.step_order = 1]

StepSamples ==
    {[step |-> [SampleStep EXCEPT !.context_type = context_type,
                                  !.context_image_url = image_url,
                                  !.context_text_content = text_content,
                                  !.context_voice_transcript = voice_transcript],
      examples |-> <<>>, branches |-> <<>>] :
        context_type \in {<<>>, <<"text">>},
        image_url \in {<<>>, <<<<"u">>>>},
        text_content \in {<<>>, <<LongText>>},
        voice_transcript \in {<<>>, <<<<"v">>>>}}
    \cup
    {[step |-> [SampleStep EXCEPT !.context_description = description,
                                  !.extraction_keywords = keywords],
      examples |-> <<>>, branches |-> <<>>] :
        description \in TextSamples, keywords \in KeywordSamples}
    \cup
    {[step |-> [SampleStep EXCEPT !.logic_strategy = strategy,
                                  !.logic_rule_expression = rule,
                                  !.logic_evaluation_prompt = prompt],
      examples |-> step_examples, branches |-> <<>>] :
        strategy \in {<<>>, <<rule_based>>, <<few_shot>>},
        rule \in {<<>>, <<<<"r">>>>},
        prompt \in {<<>>, <<<<"p">>>>},
        step_examples \in Lists(ExampleSamples, MaxExamples)}
    \cup
    {[step |-> [SampleStep EXCEPT !.logic_strategy = strategy],
      examples |-> step_examples, branches |-> <<>>] :
        strategy \in StrategyInputs,
        step_examples \in Lists(ExampleSamples, 1)}
    \cup
    {[step |-> [SampleStep EXCEPT !.routing_default_next = default_next],
      examples |-> <<>>, branches |-> step_branches] :
        default_next \in {<<>>, <<<<>>>>, <<<<"e", "n", "d">>>>},
        step_branches \in Lists(BranchSamples, MaxBranches)}

\* the rows of a step: each sample with its step_id
rows_of(samples, step_id) ==
    [n \in DOMAIN samples |-> samples[n] @@ [step_id |-> step_id]]

\* UUIDMixin: every row of a table has its own id
with_ids(rows) == [n \in DOMAIN rows |-> rows[n] @@ [id |-> n]]

OtherStep(step_order) ==
    [SampleStep EXCEPT !.name = <<"o">>, !.step_order = step_order,
                       !.logic_strategy = <<few_shot>>]

InitProtocol ==
    /\ workflows = (1 :> [name |-> SubmittedName, status |-> "draft",
                          is_template |-> FALSE, template_id |-> <<>>])
                @@ (2 :> [name |-> <<>>, status |-> "draft",
                          is_template |-> FALSE, template_id |-> <<>>])
    /\ next_uuid = 3
    /\ tasks = <<>>
    /\ \E sample \in StepSamples, workflow_id \in {1, 2}, others \in {<<>>, <<0>>, <<2>>} :
          /\ steps \in {<<>>,
                        (1 :> [sample.step EXCEPT !.workflow_id = workflow_id])
                        @@ [id \in {2 : n \in DOMAIN others} |-> OtherStep(others[1])]}
          /\ ~IntegrityError(steps)
          /\ examples =
                 IF steps = <<>> THEN <<>>
                 ELSE with_ids([n \in DOMAIN others |->
                                   [content |-> <<"o">>, label |-> "PASS",
                                    description |-> <<>>, step_id |-> 2]]
                               \o rows_of(sample.examples, 1))
          /\ routing_branches =
                 IF steps = <<>> THEN <<>>
                 ELSE with_ids([n \in DOMAIN others |->
                                   [condition_result |-> <<"o">>, action_type |-> <<"o">>,
                                    next_step_id |-> <<"o">>, step_id |-> 2]]
                               \o rows_of(sample.branches, 1))
          /\ notes = <<>>
          /\ sessions = [session \in Sessions |-> Idle]
    /\ request = [op |-> "none", workflow_id |-> 1, status |-> None]
    /\ response = [http |-> 0, result |-> NoneDict]
    /\ before = <<>>
    /\ prev = NoMove
    /\ strategy_in = <<>>
    /\ strategy_out = <<>>

\* history: the request answered just before this one
LastCall == [op |-> request.op, workflow_id |-> request.workflow_id]

NextProtocol ==
    \E workflow_id \in WorkflowIds : get_protocol(workflow_id) /\ prev' = LastCall

SpecProtocol == InitProtocol /\ [][NextProtocol]_vars


(***************************************************************************)
(* app/routers/step.py, app/routers/step_simple.py: the step endpoints.    *)
(* SpecSteps: one workflow is created, as a draft in the empty database or *)
(* as a copy of the first preset template, and its steps are created,      *)
(* moved and deleted; get_protocol projects the result.  The steps of the  *)
(* templates stay as created: the requests name the workflow, its steps    *)
(* and its tasks, or an id that does not exist.                            *)
(***************************************************************************)
\* the workflows whose steps the requests edit, with their steps and tasks
Edited == {id \in DOMAIN workflows : ~workflows[id].is_template}
EditedSteps == {id \in DOMAIN steps : steps[id].workflow_id \in Edited}
EditedTasks == {id \in DOMAIN tasks : tasks[id].workflow_id \in Edited}

StepCount(workflow_id) ==
    Cardinality({id \in DOMAIN steps : steps[id].workflow_id = workflow_id})

\* the step orders a request names
MaxOrder == MaxSteps

\* WorkflowStepCreate bodies: a name and a step_order, every other field unset
StepCreates == {[name |-> <<"n">>, step_order |-> order] : order \in 0..MaxOrder}

\* WorkflowStepUpdate bodies: a new step_order or a null step_order
StepUpdates ==
    {[step_order |-> <<order>>] : order \in 0..MaxOrder} \cup {[step_order |-> <<>>]}

\* the ids a request can name: the given ones and one that does not exist
NamedIds(ids) == ids \cup {0}

\* service.get_step, then the check that the step belongs to the workflow
StepOfWorkflow(workflow_id, step_id) ==
    step_id \in DOMAIN steps => steps[step_id].workflow_id = workflow_id

\* bound: an appended step gets an order within 0..MaxOrder
AppendInBound(workflow_id) ==
    max_step_order(Db, workflow_id) # <<>> =>
        max_step_order(Db, workflow_id)[1] < MaxOrder

router_create_step(workflow_id, data, auto_order) ==
    /\ StepCount(workflow_id) < MaxSteps
    /\ auto_order => AppendInBound(workflow_id)
    /\ AnswerDb(IF auto_order THEN "create_step_auto_order" ELSE "create_step",
                workflow_id,
                IF auto_order
                THEN create_step_auto_order(Db, workflow_id, data)
                ELSE create_step(Db, workflow_id, data), 201)
    /\ UNCHANGED next_uuid

router_update_step(workflow_id, step_id, data) ==
    /\ AnswerDb("update_step", workflow_id,
                IF StepOfWorkflow(workflow_id, step_id)
                THEN update_step(Db, step_id, data)
                ELSE Raised(Db, "NotFound"), 200)
    /\ UNCHANGED next_uuid

router_delete_step(workflow_id, step_id) ==
    /\ \E pk_order \in PrimaryKeyOrders(
                          IF step_id \in DOMAIN steps
                          THEN steps_after(Db, steps[step_id].workflow_id,
                                           steps[step_id].step_order)
                          ELSE {}) :
           AnswerDb("delete_step", workflow_id,
                    IF StepOfWorkflow(workflow_id, step_id)
                    THEN delete_step(Db, step_id, pk_order)
                    ELSE Raised(Db, "NotFound"), 204)
    /\ UNCHANGED next_uuid

router_create_step_for_task(task_id, data) ==
    /\ task_id \in DOMAIN tasks =>
           /\ StepCount(tasks[task_id].workflow_id) < MaxSteps
           /\ AppendInBound(tasks[task_id].workflow_id)
    /\ AnswerDb("create_step_for_task", task_id,
                create_step_for_task(Db, task_id, data), 200)
    /\ UNCHANGED next_uuid

router_delete_step_simple(step_id) ==
    /\ AnswerDb("delete_step_simple", step_id, delete_step_simple(Db, step_id), 200)
    /\ UNCHANGED next_uuid

NextSteps ==
    \/ workflows = <<>> /\ router_init_templates /\ UNCHANGED prev
    \/ \E template_id \in 0..1 :
           Edited = {} /\ router_create_from_template(template_id) /\ UNCHANGED prev
    \/ workflows = <<>> /\ router_create_workflow("draft") /\ UNCHANGED prev
    \/ \E workflow_id \in Edited, data \in StepCreates :
           router_create_step(workflow_id, data, FALSE) /\ UNCHANGED prev
    \/ \E workflow_id \in NamedIds(Edited), data \in {[name |-> <<"n">>, step_order |-> 0]},
          auto_order \in BOOLEAN :
           router_create_step(workflow_id, data, auto_order) /\ UNCHANGED prev
    \/ \E workflow_id \in Edited, step_id \in EditedSteps, data \in StepUpdates :
           router_update_step(workflow_id, step_id, data) /\ UNCHANGED prev
    \/ \E workflow_id \in NamedIds(Edited), step_id \in NamedIds(EditedSteps) :
           (workflow_id = 0 \/ step_id = 0)
               /\ router_update_step(workflow_id, step_id, [step_order |-> <<0>>])
               /\ UNCHANGED prev
    \/ \E workflow_id \in Edited, step_id \in EditedSteps :
           router_delete_step(workflow_id, step_id) /\ UNCHANGED prev
    \/ \E workflow_id \in NamedIds(Edited), step_id \in NamedIds(EditedSteps) :
           (workflow_id = 0 \/ step_id = 0)
               /\ router_delete_step(workflow_id, step_id) /\ UNCHANGED prev
    \/ \E task_id \in NamedIds(EditedTasks) :
           router_create_step_for_task(task_id, [name |-> <<"n">>]) /\ UNCHANGED prev
    \/ \E step_id \in NamedIds(EditedSteps) :
           router_delete_step_simple(step_id) /\ UNCHANGED prev
    \/ \E workflow_id \in NamedIds(Edited) :
           get_protocol(workflow_id) /\ UNCHANGED prev

SpecSteps == Init /\ [][NextSteps]_vars

(***************************************************************************)
(* SpecOrders: the step endpoints applied to a stored workflow.  Init      *)
(* draws the steps of workflow 1, each with its own step_order, gaps       *)
(* allowed; workflow 2 holds one step that no request names.               *)
(***************************************************************************)
\* the step orders of a stored workflow, by step id
StoredOrders ==
    {orders \in Lists(0..(MaxOrder + 1), MaxSteps + 1) :
        \A a, b \in DOMAIN orders : a # b => orders[a] # orders[b]}

InitOrders ==
    /\ workflows = (1 :> [name |-> SubmittedName, status |-> "draft",
                          is_template |-> FALSE, template_id |-> <<>>])
                @@ (2 :> [name |-> <<>>, status |-> "draft",
                          is_template |-> FALSE, template_id |-> <<>>])
    /\ next_uuid = 3
    /\ tasks = <<>>
    /\ \E orders \in StoredOrders :
          steps = [id \in 1..(Len(orders) + 1) |->
                      IF id <= Len(orders)
                      THEN [SampleStep EXCEPT !.step_order = orders[id]]
                      ELSE [SampleStep EXCEPT !.workflow_id = 2]]
    /\ examples = <<>>
    /\ routing_branches = <<>>
    /\ notes = <<>>
    /\ sessions = [session \in Sessions |-> Idle]
    /\ request = [op |-> "none", workflow_id |-> 1, status |-> None]
    /\ response = [http |-> 0, result |-> NoneDict]
    /\ before = <<>>
    /\ prev = NoMove
    /\ strategy_in = <<>>
    /\ strategy_out = <<>>

\* the steps of workflow 1
OrderedSteps == {id \in DOMAIN steps : steps[id].workflow_id = 1}

NextOrders ==
    \/ \E workflow_id \in {0, 1}, data \in StepCreates, auto_order \in BOOLEAN :
           router_create_step(workflow_id, data, auto_order) /\ UNCHANGED prev
    \/ \E step_id \in NamedIds(OrderedSteps), data \in StepUpdates :
           router_update_step(1, step_id, data) /\ UNCHANGED prev
    \/ \E workflow_id \in {0, 1}, step_id \in NamedIds(OrderedSteps) :
           router_delete_step(workflow_id, step_id) /\ UNCHANGED prev
    \/ \E step_id \in NamedIds(OrderedSteps) :
           router_delete_step_simple(step_id) /\ UNCHANGED prev

SpecOrders == InitOrders /\ [][NextOrders]_vars

(***************************************************************************)
(* app/services/step.py, app/routers/step.py: the routing branches of a    *)
(* step.                                                                   *)
(***************************************************************************)
\* the ids of the rows of a table kept as a sequence
row_ids(rows) == {rows[n].id : n \in DOMAIN rows}

\* WorkflowStepResponse.model_validate(step) after db.refresh(step): the response
\* with the step's routing branches
model_validate(db, step_id) ==
    [id               |-> step_id,
     workflow_id      |-> db.steps[step_id].workflow_id,
     step_order       |-> db.steps[step_id].step_order,
     routing_branches |-> Step_routing_branches(db, step_id)]

\* RoutingBranch(step_id=..., ...): db.add, db.commit
add_routing_branch(db, step_id, branch_data) ==
    IF step_id \notin DOMAIN db.steps
    THEN Raised(db, "StepNotFoundError")
    ELSE LET branch == [id               |-> uuid4(row_ids(db.routing_branches), 1)[1],
                        step_id          |-> step_id,
                        condition_result |-> branch_data.condition_result,
                        action_type      |-> branch_data.action_type,
                        next_step_id     |-> branch_data.next_step_id]
             after  == [db EXCEPT !.routing_branches = Append(@, branch)]
         IN  Returned(after, model_validate(after, step_id))

\* a removal that takes every branch of the step with it
remove_routing_branch_all(db, step_id, branch_id) ==
    IF step_id \notin DOMAIN db.steps
    THEN Raised(db, "StepNotFoundError")
    ELSE LET after == [db EXCEPT !.routing_branches =
                          SelectSeq(@, LAMBDA branch : branch.step_id # step_id)]
         IN  Returned(after, model_validate(after, step_id))

\* the loop over step.routing_branches stops at the first branch with the id; the
\* branch is deleted when there is one
remove_routing_branch(db, step_id, branch_id) ==
    IF step_id \notin DOMAIN db.steps
    THEN Raised(db, "StepNotFoundError")
    ELSE LET own == Step_routing_branches(db, step_id)
             branch_to_remove ==
                 IF \E n \in DOMAIN own : own[n].id = branch_id
                 THEN <<own[CHOOSE n \in DOMAIN own :
                               /\ own[n].id = branch_id
                               /\ \A m \in 1..(n - 1) : own[m].id # branch_id]>>
                 ELSE <<>>
             after == IF branch_to_remove = <<>> THEN db
                      ELSE [db EXCEPT !.routing_branches =
                               SelectSeq(@, LAMBDA branch : branch # branch_to_remove[1])]
         IN  Returned(after, model_validate(after, step_id))

router_add_routing_branch(workflow_id, step_id, data) ==
    /\ Len(routing_branches) < MaxBranches
    /\ AnswerDb("add_routing_branch", step_id,
                IF StepOfWorkflow(workflow_id, step_id)
                THEN add_routing_branch(Db, step_id, data)
                ELSE Raised(Db, "NotFound"), 201)
    /\ UNCHANGED next_uuid

\* the request record keeps the branch id; the step is in the answer
router_remove_routing_branch(workflow_id, step_id, branch_id) ==
    /\ AnswerDb("remove_routing_branch", branch_id,
                IF StepOfWorkflow(workflow_id, step_id)
                THEN remove_routing_branch(Db, step_id, branch_id)
                ELSE Raised(Db, "NotFound"), 200)
    /\ UNCHANGED next_uuid

(***************************************************************************)
(* SpecBranches: workflow 1 holds steps 1 and 2, workflow 2 holds step 3;  *)
(* branches are added to the steps and removed from them.                  *)
(***************************************************************************)
InitBranches ==
    /\ workflows = (1 :> [name |-> SubmittedName, status |-> "draft",
                          is_template |-> FALSE, template_id |-> <<>>])
                @@ (2 :> [name |-> <<>>, status |-> "draft",
                          is_template |-> FALSE, template_id |-> <<>>])
    /\ next_uuid = 3
    /\ tasks = <<>>
    /\ steps = [id \in 1..3 |->
                   IF id <= 2 THEN [SampleStep EXCEPT !.step_order = id]
                   ELSE [SampleStep EXCEPT !.workflow_id = 2]]
    /\ examples = <<>>
    /\ routing_branches = <<>>
    /\ notes = <<>>
    /\ sessions = [session \in Sessions |-> Idle]
    /\ request = [op |-> "none", workflow_id |-> 1, status |-> None]
    /\ response = [http |-> 0, result |-> NoneDict]
    /\ before = <<>>
    /\ prev = NoMove
    /\ strategy_in = <<>>
    /\ strategy_out = <<>>

NextBranches ==
    \/ \E workflow_id \in {1, 2}, step_id \in 0..2, data \in BranchSamples :
           router_add_routing_branch(workflow_id, step_id, data) /\ UNCHANGED prev
    \/ \E workflow_id \in {1, 2}, step_id \in 0..2,
          branch_id \in NamedIds(row_ids(routing_branches)) :
           router_remove_routing_branch(workflow_id, step_id, branch_id)
               /\ UNCHANGED prev

SpecBranches == InitBranches /\ [][NextBranches]_vars

(***************************************************************************)
(* app/services/example.py, app/repositories/example.py,                   *)
(* app/routers/example.py: the examples of a step.  created_at grows with  *)
(* every insert, so ORDER BY created_at is the stored order.               *)
(***************************************************************************)
ExampleLabel == {"PASS", "FAIL"}

\* ExampleResponse.model_validate(example)
ExampleResponse(example) ==
    [id          |-> example.id,
     step_id     |-> example.step_id,
     content     |-> example.content,
     label       |-> example.label,
     description |-> example.description]

create_example(db, step_id, data) ==
    IF step_id \notin DOMAIN db.steps
    THEN Raised(db, "StepNotFoundError")
    ELSE LET example == [id          |-> uuid4(row_ids(db.examples), 1)[1],
                         step_id     |-> step_id,
                         content     |-> data.content,
                         label       |-> data.label,
                         description |-> data.description]
         IN  Returned([db EXCEPT !.examples = Append(@, example)],
                      ExampleResponse(example))

get_example(db, example_id) ==
    IF example_id \notin row_ids(db.examples)
    THEN Raised(db, "ExampleNotFoundError")
    ELSE Returned(db, ExampleResponse(
                          CHOOSE example \in {db.examples[n] : n \in DOMAIN db.examples} :
                              example.id = example_id))

\* a query that leaves the label out of the WHERE clause
get_by_step_id_any_label(db, step_id, label) ==
    SelectSeq(db.examples, LAMBDA example : example.step_id = step_id)

get_by_step_id_and_label(db, step_id, label) ==
    SelectSeq(db.examples, LAMBDA example : /\ example.step_id = step_id
                                            /\ example.label = label)

list_by_label(db, step_id, label) ==
    IF step_id \notin DOMAIN db.steps
    THEN Raised(db, "StepNotFoundError")
    ELSE LET found == get_by_step_id_and_label(db, step_id, label)
         IN  Returned(db, [n \in DOMAIN found |-> ExampleResponse(found[n])])

list_passing_examples(db, step_id) == list_by_label(db, step_id, "PASS")

list_failing_examples(db, step_id) == list_by_label(db, step_id, "FAIL")

delete_example(db, example_id) ==
    IF example_id \notin row_ids(db.examples)
    THEN Raised(db, "ExampleNotFoundError")
    ELSE Returned([db EXCEPT !.examples =
                      SelectSeq(@, LAMBDA example : example.id # example_id)],
                  NoneDict)

router_create_example(step_id, data) ==
    /\ Len(examples) < MaxExamples
    /\ AnswerDb("create_example", step_id, create_example(Db, step_id, data), 201)
    /\ UNCHANGED next_uuid

router_get_example(example_id) ==
    /\ AnswerDb("get_example", example_id, get_example(Db, example_id), 200)
    /\ UNCHANGED next_uuid

router_delete_example(example_id) ==
    /\ AnswerDb("delete_example", example_id, delete_example(Db, example_id), 204)
    /\ UNCHANGED next_uuid

(***************************************************************************)
(* SpecExamples: examples are created on the steps of SpecBranches (and on *)
(* a missing step), read back and deleted.                                 *)
(***************************************************************************)
ExampleCreates ==
    {[content |-> content, label |-> label, description |-> <<>>] :
        content \in {<<"c">>}, label \in ExampleLabel}

NextExamples ==
    \/ \E step_id \in 0..3, data \in ExampleCreates :
           router_create_example(step_id, data) /\ UNCHANGED prev
    \/ \E example_id \in NamedIds(row_ids(examples)) :
           router_get_example(example_id) /\ UNCHANGED prev
    \/ \E example_id \in NamedIds(row_ids(examples)) :
           router_delete_example(example_id) /\ UNCHANGED prev

SpecExamples == InitBranches /\ [][NextExamples]_vars

(***************************************************************************)
(* app/services/task.py, app/routers/task.py                               *)
(***************************************************************************)
\* UniqueConstraint("workflow_id", "task_order")
uq_workflow_task_order(tbl) ==
    Cardinality({<<tbl[id].workflow_id, tbl[id].task_order>> : id \in DOMAIN tbl})
        = Cardinality(DOMAIN tbl)

\* select(Task).where(workflow_id).order_by(Task.task_order): the ids in that order
get_tasks_by_workflow(db, workflow_id) == Workflow_tasks(db.tasks, workflow_id)

\* TaskResponse, the fields the model keeps
TaskResponse(db, task_id) ==
    [id         |-> task_id,
     workflow_id |-> db.tasks[task_id].workflow_id,
     task_order |-> db.tasks[task_id].task_order]

\* db.add(task), db.commit(): the foreign key and the unique constraint are checked
create_task(db, workflow_id, name, task_order) ==
    LET id == uuid4(DOMAIN db.tasks, 1)[1]
        pending == (id :> [workflow_id |-> workflow_id, name |-> name,
                           task_order |-> task_order]) @@ db.tasks
    IN  IF workflow_id \notin DOMAIN db.workflows \/ ~uq_workflow_task_order(pending)
        THEN Raised(db, "IntegrityError")
        ELSE Returned([db EXCEPT !.tasks = pending],
                      TaskResponse([db EXCEPT !.tasks = pending], id))

\* the rows that go with a set of steps: cascade="all, delete-orphan"
cascade_steps(db, step_ids) ==
    [db EXCEPT
        !.steps = [id \in DOMAIN db.steps \ step_ids |-> db.steps[id]],
        !.examples = SelectSeq(db.examples, LAMBDA example : example.step_id \notin step_ids),
        !.routing_branches =
            SelectSeq(db.routing_branches, LAMBDA branch : branch.step_id \notin step_ids),
        !.notes = SelectSeq(db.notes, LAMBDA note : note.step_id \notin step_ids)]

\* delete_task: the task goes with its steps
delete_task(db, task_id) ==
    IF task_id \notin DOMAIN db.tasks
    THEN Returned(db, FALSE)
    ELSE LET task_steps == {id \in DOMAIN db.steps : db.steps[id].task_id = <<task_id>>}
             cascaded   == cascade_steps(db, task_steps)
         IN  Returned([cascaded EXCEPT
                          !.tasks = [id \in DOMAIN db.tasks \ {task_id} |-> db.tasks[id]]],
                      TRUE)

\* the loop of reorder_tasks: the tasks of the workflow named in task_ids, and the
\* task_order each ends with (enumerate(task_ids, start=1), a later entry wins)
reordered(db, workflow_id, task_ids) ==
    {id \in Range(task_ids) :
        id \in DOMAIN db.tasks /\ db.tasks[id].workflow_id = workflow_id}

new_task_order(task_ids, task_id) ==
    CHOOSE i \in DOMAIN task_ids :
        task_ids[i] = task_id /\ \A j \in DOMAIN task_ids : task_ids[j] = task_id => j <= i

\* the rows the session holds changed when reorder_tasks commits
dirty_tasks(db, workflow_id, task_ids) ==
    {id \in reordered(db, workflow_id, task_ids) :
        new_task_order(task_ids, id) # db.tasks[id].task_order}

\* the flush of that commit: one UPDATE per changed task, emitted in primary-key
\* order (pk_order), each checked against uq_workflow_task_order
RECURSIVE flush_task_orders(_, _, _)
flush_task_orders(tbl, task_ids, pk_order) ==
    IF pk_order = <<>>
    THEN [ok |-> TRUE, tasks |-> tbl]
    ELSE LET updated == [tbl EXCEPT ![Head(pk_order)].task_order =
                                        new_task_order(task_ids, Head(pk_order))]
         IN  IF uq_workflow_task_order(updated)
             THEN flush_task_orders(updated, task_ids, Tail(pk_order))
             ELSE [ok |-> FALSE, tasks |-> tbl]

reorder_tasks(db, workflow_id, task_ids, pk_order) ==
    LET flushed == flush_task_orders(db.tasks, task_ids, pk_order)
        after   == [db EXCEPT !.tasks = flushed.tasks]
        listed  == get_tasks_by_workflow(after, workflow_id)
    IN  IF flushed.ok
        THEN Returned(after, [n \in DOMAIN listed |-> TaskResponse(after, listed[n])])
        ELSE Raised(db, "IntegrityError")

router_create_task(workflow_id, data) ==
    /\ Cardinality(DOMAIN tasks) < MaxTasks
    /\ AnswerDb("create_task", workflow_id,
                create_task(Db, workflow_id, data.name,
                            Len(get_tasks_by_workflow(Db, workflow_id)) + 1), 200)
    /\ UNCHANGED next_uuid

router_delete_task(task_id) ==
    /\ LET out == delete_task(Db, task_id)
       IN  AnswerDb("delete_task", task_id,
                    IF out.result THEN Returned(out.db, [message |-> "deleted"])
                    ELSE Raised(Db, "NotFound"), 200)
    /\ UNCHANGED next_uuid

router_reorder_tasks(workflow_id, task_ids) ==
    /\ \E pk_order \in PrimaryKeyOrders(dirty_tasks(Db, workflow_id, task_ids)) :
           AnswerDb("reorder_tasks", workflow_id,
                    reorder_tasks(Db, workflow_id, task_ids, pk_order), 200)
    /\ UNCHANGED next_uuid

(***************************************************************************)
(* SpecTasks: workflows are created as drafts and their tasks are created, *)
(* deleted and reordered; a task can get a step, which goes with it.       *)
(***************************************************************************)
TaskCreates == {[name |-> <<"k">>]}

\* ReorderRequest.task_ids: stored ids and an unknown one, none of them twice
ReorderRequests ==
    {task_ids \in Lists(NamedIds(DOMAIN tasks), MaxTasks) :
        \A a, b \in DOMAIN task_ids : a # b => task_ids[a] # task_ids[b]}

NextTasks ==
    \/ router_create_workflow("draft") /\ UNCHANGED prev
    \/ \E workflow_id \in NamedIds(DOMAIN workflows), data \in TaskCreates :
           router_create_task(workflow_id, data) /\ UNCHANGED prev
    \/ \E task_id \in NamedIds(DOMAIN tasks) :
           router_delete_task(task_id) /\ UNCHANGED prev
    \/ \E workflow_id \in DOMAIN workflows, task_ids \in ReorderRequests :
           router_reorder_tasks(workflow_id, task_ids) /\ UNCHANGED prev
    \/ router_reorder_tasks(0, <<>>) /\ UNCHANGED prev
    \/ \E task_id \in DOMAIN tasks :
           /\ steps = <<>>
           /\ router_create_step_for_task(task_id, [name |-> <<"n">>])
           /\ UNCHANGED prev

SpecTasks == Init /\ [][NextTasks]_vars

(***************************************************************************)
(* app/services/workflow.py delete_workflow, app/services/note.py: the     *)
(* delete of a workflow with the rows the ORM and the foreign keys take    *)
(* with it.                                                                *)
(***************************************************************************)
\* what the foreign key of workflows.template_id does when the template row goes:
\* SET NULL in the migration, no action in the table the model declares
fk_workflows_template_id == {"SET NULL", "NO ACTION"}

\* the delete of a workflow row that leaves the rows of the other tables behind
delete_workflow_row(db, workflow_id, ondelete) ==
    IF workflow_id \notin DOMAIN db.workflows
    THEN Raised(db, "WorkflowNotFoundError")
    ELSE Returned([db EXCEPT !.workflows =
                      [id \in DOMAIN db.workflows \ {workflow_id} |-> db.workflows[id]]],
                  NoneDict)

\* db.delete(workflow); db.commit(): the tasks and steps of the workflow, the
\* steps of its tasks, and the examples, branches and notes of those steps go
\* with it; workflows copied from it lose their template_id or block the delete
delete_workflow(db, workflow_id, ondelete) ==
    IF workflow_id \notin DOMAIN db.workflows
    THEN Raised(db, "WorkflowNotFoundError")
    ELSE LET copies == {id \in DOMAIN db.workflows :
                           db.workflows[id].template_id = <<workflow_id>>}
             own_tasks == {id \in DOMAIN db.tasks :
                              db.tasks[id].workflow_id = workflow_id}
             own_steps == {id \in DOMAIN db.steps :
                              \/ db.steps[id].workflow_id = workflow_id
                              \/ \E task_id \in own_tasks :
                                     db.steps[id].task_id = <<task_id>>}
             cascaded == cascade_steps(db, own_steps)
         IN  IF copies # {} /\ ondelete = "NO ACTION"
             THEN Raised(db, "IntegrityError")
             ELSE Returned(
                      [cascaded EXCEPT
                          !.tasks = [id \in DOMAIN db.tasks \ own_tasks |-> db.tasks[id]],
                          !.workflows =
                              [id \in DOMAIN db.workflows \ {workflow_id} |->
                                  IF id \in copies
                                  THEN [db.workflows[id] EXCEPT !.template_id = <<>>]
                                  ELSE db.workflows[id]]],
                      NoneDict)

router_delete_workflow(workflow_id) ==
    /\ \E ondelete \in fk_workflows_template_id :
           AnswerDb("delete_workflow", workflow_id,
                    delete_workflow(Db, workflow_id, ondelete), 204)
    /\ UNCHANGED next_uuid

\* StepNote(step_id=..., ...): db.add, db.commit; the foreign key refuses a note
\* of a step that does not exist
create_note(db, step_id, data) ==
    IF step_id \notin DOMAIN db.steps
    THEN Raised(db, "IntegrityError")
    ELSE LET note == [id           |-> uuid4(row_ids(db.notes), 1)[1],
                      step_id      |-> step_id,
                      content_type |-> data.content_type,
                      content      |-> data.content]
         IN  Returned([db EXCEPT !.notes = Append(@, note)], note)

router_create_note(step_id, data) ==
    /\ AnswerDb("create_note", step_id, create_note(Db, step_id, data), 200)
    /\ UNCHANGED next_uuid

(***************************************************************************)
(* SpecCascade: the tables after init_templates and one create_from_       *)
(* template (template 1 with task 1 and step 1, its copy 2 with task 2 and *)
(* step 2), each step with or without an example, a branch and a note;     *)
(* workflows, tasks and steps are deleted, and rows are created under      *)
(* existing and missing parents.                                           *)
(***************************************************************************)
NoteCreates == {[content_type |-> <<"t">>, content |-> <<"n">>]}

\* the stored rows of one table: those of rows whose step is in with_row
StoredRows(with_row, rows) ==
    with_ids(SelectSeq(rows, LAMBDA row : row.step_id \in with_row))

InitCascade ==
    /\ workflows = (1 :> [name |-> SubmittedName, status |-> "draft",
                          is_template |-> TRUE, template_id |-> <<>>])
                @@ (2 :> [name |-> SubmittedName, status |-> "draft",
                          is_template |-> FALSE, template_id |-> <<1>>])
    /\ next_uuid = 3
    /\ tasks = [id \in 1..2 |-> [workflow_id |-> id, name |-> <<"k">>, task_order |-> 1]]
    /\ steps = [id \in 1..2 |->
                   [SampleStep EXCEPT !.workflow_id = id, !.task_id = <<id>>]]
    /\ \E with_example \in SUBSET {1, 2} :
           examples = StoredRows(with_example,
               [step_id \in 1..2 |->
                   [step_id |-> step_id, content |-> <<"c">>, label |-> "PASS",
                    description |-> <<>>]])
    /\ \E with_branch \in SUBSET {1, 2} :
           routing_branches = StoredRows(with_branch,
               [step_id \in 1..2 |->
                   [step_id |-> step_id, condition_result |-> <<"F">>,
                    action_type |-> <<"j">>, next_step_id |-> <<"e">>]])
    /\ \E with_note \in SUBSET {1, 2} :
           notes = StoredRows(with_note,
               [step_id \in 1..2 |->
                   [step_id |-> step_id, content_type |-> <<"t">>,
                    content |-> <<"n">>]])
    /\ sessions = [session \in Sessions |-> Idle]
    /\ request = [op |-> "none", workflow_id |-> 1, status |-> None]
    /\ response = [http |-> 0, result |-> NoneDict]
    /\ before = <<>>
    /\ prev = NoMove
    /\ strategy_in = <<>>
    /\ strategy_out = <<>>

NextCascade ==
    \/ \E workflow_id \in 0..2 :
           router_delete_workflow(workflow_id) /\ UNCHANGED prev
    \/ \E task_id \in 0..2 :
           router_delete_task(task_id) /\ UNCHANGED prev
    \/ \E step_id \in 0..2 :
           router_delete_step_simple(step_id) /\ UNCHANGED prev
    \/ \E workflow_id \in 0..2, data \in TaskCreates :
           /\ tasks = <<>>
           /\ router_create_task(workflow_id, data)
           /\ UNCHANGED prev
    \/ \E task_id \in 0..2, data \in {[name |-> <<"n">>]} :
           /\ steps = <<>>
           /\ router_create_step_for_task(task_id, data)
           /\ UNCHANGED prev
    \/ \E step_id \in 0..2, data \in ExampleCreates :
           /\ examples = <<>>
           /\ router_create_example(step_id, data)
           /\ UNCHANGED prev
    \/ \E workflow_id \in 1..2, step_id \in 0..2, data \in BranchSamples :
           /\ routing_branches = <<>>
           /\ router_add_routing_branch(workflow_id, step_id, data)
           /\ UNCHANGED prev
    \/ \E step_id \in 0..2, data \in NoteCreates :
           /\ notes = <<>>
           /\ router_create_note(step_id, data)
           /\ UNCHANGED prev

SpecCascade == InitCascade /\ [][NextCascade]_vars

(***************************************************************************)
(* app/services/status.py transition_workflow_status, one await at a time: *)
(* the SELECT with the check of new_status against the row read, the       *)
(* commit that writes the UPDATE, and the refresh that builds the answer.  *)
(* Each request has its own session (get_async_db); the steps of two       *)
(* requests interleave at the awaits.                                      *)
(***************************************************************************)
\* a request that has answered
Answered(workflow_id, read_status, new_status, http, result) ==
    [pc |-> "done", workflow_id |-> workflow_id, read_status |-> read_status,
     new_status |-> new_status, http |-> http, result |-> result]

\* await db.execute(select(Workflow)...), then the check against VALID_TRANSITIONS
\* of the status read; workflow.status = new_status is set on the loaded object
transition_select(session, workflow_id, new_status) ==
    /\ sessions[session].pc \in {"idle", "done"}
    /\ sessions' = [sessions EXCEPT ![session] =
           IF workflow_id \notin DOMAIN workflows
           THEN Answered(workflow_id, None, new_status, 404, NoneDict)
           ELSE LET status  == workflows[workflow_id].status
                    allowed == Get(VALID_TRANSITIONS, status, <<>>)
                IN  IF new_status \notin Range(allowed)
                    THEN Answered(workflow_id, status, new_status, 200,
                                  [success |-> FALSE,
                                   error |-> TransitionError(status, new_status),
                                   allowed_transitions |-> allowed])
                    ELSE [pc |-> "selected", workflow_id |-> workflow_id,
                          read_status |-> status, new_status |-> new_status]]
    /\ UNCHANGED <<status_vars, mapping_vars, table_vars>>

\* a commit that writes only when the row still has the status that was read
transition_commit_if_unchanged(session) ==
    /\ sessions[session].pc = "selected"
    /\ LET mine == sessions[session]
           same == workflows[mine.workflow_id].status = mine.read_status
       IN  /\ workflows' = IF same
                           THEN [workflows EXCEPT
                                    ![mine.workflow_id].status = mine.new_status]
                           ELSE workflows
           /\ sessions' = [sessions EXCEPT ![session] =
                  IF same THEN [mine EXCEPT !.pc = "committed"]
                  ELSE Answered(mine.workflow_id, mine.read_status, mine.new_status,
                                409, NoneDict)]
    /\ UNCHANGED <<next_uuid, request, response, before, prev, mapping_vars,
                   table_vars>>

\* await db.commit(): UPDATE workflows SET status = new_status WHERE id = ..., with
\* no condition on the status that was read
transition_commit(session) ==
    /\ sessions[session].pc = "selected"
    /\ LET mine == sessions[session]
           c == commit(workflows,
                       [workflows EXCEPT ![mine.workflow_id].status = mine.new_status])
       IN  /\ workflows' = c.db
           /\ sessions' = [sessions EXCEPT ![session] =
                  IF c.ok THEN [mine EXCEPT !.pc = "committed"]
                  ELSE Answered(mine.workflow_id, mine.read_status, mine.new_status,
                                500, NoneDict)]
    /\ UNCHANGED <<next_uuid, request, response, before, prev, mapping_vars,
                   table_vars>>

\* await db.refresh(workflow), then the dict built from the refreshed row
transition_refresh(session) ==
    /\ sessions[session].pc = "committed"
    /\ LET mine == sessions[session]
       IN  sessions' = [sessions EXCEPT ![session] =
               Answered(mine.workflow_id, mine.read_status, mine.new_status, 200,
                        TransitionSuccess(workflows, mine.workflow_id))]
    /\ UNCHANGED <<status_vars, mapping_vars, table_vars>>

(***************************************************************************)
(* SpecRace: one stored workflow in any status of the table; two sessions  *)
(* run transition requests whose steps interleave.                         *)
(***************************************************************************)
InitRace ==
    /\ \E status \in DOMAIN VALID_TRANSITIONS :
           workflows = (1 :> [name |-> SubmittedName, status |-> status,
                              is_template |-> FALSE, template_id |-> <<>>])
    /\ next_uuid = 2
    /\ request = [op |-> "none", workflow_id |-> 1, status |-> None]
    /\ response = [http |-> 0, result |-> NoneDict]
    /\ before = <<>>
    /\ prev = NoMove
    /\ tasks = <<>>
    /\ steps = <<>>
    /\ examples = <<>>
    /\ routing_branches = <<>>
    /\ notes = <<>>
    /\ sessions = [session \in Sessions |-> Idle]
    /\ strategy_in = <<>>
    /\ strategy_out = <<>>

NextRace ==
    \/ \E session \in Sessions, workflow_id \in {0, 1}, new_status \in StatusStrings :
           transition_select(session, workflow_id, new_status)
    \/ \E session \in Sessions : transition_commit(session)
    \/ \E session \in Sessions : transition_refresh(session)

SpecRace == InitRace /\ [][NextRace]_vars

(***************************************************************************)
(* app/services/step.py create_step_auto_order and app/routers/            *)
(* step_simple.py create_step_for_task, one database round trip at a time: *)
(* the queries that find the parent and the largest step_order, then the   *)
(* INSERT at commit.  The two steps of one request are separated by        *)
(* whatever another session (another worker, or another coroutine at an    *)
(* await) does in between.                                                 *)
(***************************************************************************)
\* a request that has built its WorkflowStep and has not committed it
Pending(step, ok_code) == [pc |-> "read", step |-> step, ok_code |-> ok_code]

\* a request that has answered
Finished(http, result) == [pc |-> "done", http |-> http, result |-> result]

\* workflow_repository.exists, step_repository.get_max_order, WorkflowStep(...)
create_step_auto_order_select(session, workflow_id, data) ==
    /\ sessions[session].pc \in {"idle", "done"}
    /\ StepCount(workflow_id) < MaxSteps
    /\ AppendInBound(workflow_id)
    /\ sessions' = [sessions EXCEPT ![session] =
           IF workflow_id \notin DOMAIN workflows
           THEN Finished(404, NoneDict)
           ELSE Pending(WorkflowStep(workflow_id, <<>>,
                                     get_max_order(Db, workflow_id) + 1, data), 201)]
    /\ UNCHANGED <<status_vars, mapping_vars, table_vars>>

\* select(Task), select(coalesce(max(step_order), 0) + 1), WorkflowStep(...)
create_step_for_task_select(session, task_id, data) ==
    /\ sessions[session].pc \in {"idle", "done"}
    /\ task_id \in DOMAIN tasks =>
           /\ StepCount(tasks[task_id].workflow_id) < MaxSteps
           /\ AppendInBound(tasks[task_id].workflow_id)
    /\ sessions' = [sessions EXCEPT ![session] =
           IF task_id \notin DOMAIN tasks
           THEN Finished(404, NoneDict)
           ELSE LET workflow_id == tasks[task_id].workflow_id
                    next_order == (IF max_step_order(Db, workflow_id) = <<>> THEN 0
                                   ELSE max_step_order(Db, workflow_id)[1]) + 1
                IN  Pending(WorkflowStep(workflow_id, <<task_id>>, next_order,
                                         [name |-> data.name]), 200)]
    /\ UNCHANGED <<status_vars, mapping_vars, table_vars>>

\* db.add(step); db.commit(); db.refresh(step): the INSERT, refused by
\* uq_workflow_step_order when the order was taken since it was read
step_commit(session) ==
    /\ sessions[session].pc = "read"
    /\ LET out == StepRepository_create(Db, sessions[session].step)
       IN  /\ steps' = out.db.steps
           /\ sessions' = [sessions EXCEPT ![session] =
                  Finished(HTTPException(out.error, sessions[session].ok_code),
                           out.result)]
    /\ UNCHANGED <<status_vars, mapping_vars, tasks, examples, routing_branches,
                   notes>>

(***************************************************************************)
(* SpecAppend: workflow 1 with task 1 and no step or one step of any       *)
(* order; two sessions append steps.                                       *)
(***************************************************************************)
InitAppend ==
    /\ workflows = (1 :> [name |-> SubmittedName, status |-> "draft",
                          is_template |-> FALSE, template_id |-> <<>>])
    /\ next_uuid = 2
    /\ tasks = (1 :> [workflow_id |-> 1, name |-> <<"k">>, task_order |-> 1])
    /\ \E orders \in Lists(0..(MaxOrder - 1), 1) :
           steps = [id \in DOMAIN orders |-> [SampleStep EXCEPT !.step_order = orders[id]]]
    /\ examples = <<>>
    /\ routing_branches = <<>>
    /\ notes = <<>>
    /\ sessions = [session \in Sessions |-> Idle]
    /\ request = [op |-> "none", workflow_id |-> 1, status |-> None]
    /\ response = [http |-> 0, result |-> NoneDict]
    /\ before = <<>>
    /\ prev = NoMove
    /\ strategy_in = <<>>
    /\ strategy_out = <<>>

NextAppend ==
    \/ \E session \in Sessions, workflow_id \in {0, 1}, data \in StepCreates :
           create_step_auto_order_select(session, workflow_id, data)
    \/ \E session \in Sessions, task_id \in {0, 1}, data \in {[name |-> <<"n">>]} :
           create_step_for_task_select(session, task_id, data)
    \/ \E session \in Sessions : step_commit(session)

SpecAppend == InitAppend /\ [][NextAppend]_vars

(***************************************************************************)
(* SpecTemplates: create_workflow_from_template applied to a stored        *)
(* template.  Init draws template 1 as the step and task endpoints can     *)
(* leave it: one to MaxTasks tasks in any task order, up to MaxSteps steps *)
(* with distinct orders, each under one of the tasks or under none (a step *)
(* created by POST /api/workflows/{id}/steps has no task).                 *)
(***************************************************************************)
\* the task_order of each task of the template, by task id
TemplateTaskOrders ==
    {orders \in UNION {[1..n -> 1..n] : n \in 1..MaxTasks} :
        \A a, b \in DOMAIN orders : a # b => orders[a] # orders[b]}

\* the step_order of each step of the template, by step id
TemplateStepOrders ==
    {orders \in Lists(1..(MaxSteps + 1), MaxSteps) :
        \A a, b \in DOMAIN orders : a # b => orders[a] # orders[b]}

InitTemplates ==
    /\ workflows = (1 :> [name |-> SubmittedName, status |-> "draft",
                          is_template |-> TRUE, template_id |-> <<>>])
    /\ next_uuid = 2
    /\ \E task_orders \in TemplateTaskOrders, step_orders \in TemplateStepOrders :
       \E owner \in [DOMAIN step_orders -> 0..Len(task_orders)] :
           /\ tasks = [id \in DOMAIN task_orders |->
                          [workflow_id |-> 1, name |-> <<Digit[id]>>,
                           task_order |-> task_orders[id]]]
           /\ steps = [id \in DOMAIN step_orders |->
                          [SampleStep EXCEPT
                              !.step_order = step_orders[id],
                              !.task_id = IF owner[id] = 0 THEN <<>>
                                          ELSE <<owner[id]>>]]
    /\ examples = <<>>
    /\ routing_branches = <<>>
    /\ notes = <<>>
    /\ sessions = [session \in Sessions |-> Idle]
    /\ request = [op |-> "none", workflow_id |-> 1, status |-> None]
    /\ response = [http |-> 0, result |-> NoneDict]
    /\ before = <<>>
    /\ prev = NoMove
    /\ strategy_in = <<>>
    /\ strategy_out = <<>>

NextTemplates ==
    \E template_id \in 0..2 :
        router_create_from_template(template_id) /\ UNCHANGED prev

SpecTemplates == InitTemplates /\ [][NextTemplates]_vars

(***************************************************************************)
(* The properties.  They state the lifecycle independently of the tables   *)
(* of the code: the six states in their order of progress.                 *)
(***************************************************************************)
LifecycleOrder ==
    <<"draft", "worker_done", "expert_done", "analyzed", "confirmed", "delivered">>

LifecycleStates == Range(LifecycleOrder)

Position(status) == CHOOSE i \in DOMAIN LifecycleOrder : LifecycleOrder[i] = status

\* the row of the transition table: predecessor first, then successor
TableRow(status) ==
    LET i == Position(status) IN
    (IF i > 1 THEN <<LifecycleOrder[i - 1]>> ELSE <<>>)
        \o (IF i < Len(LifecycleOrder) THEN <<LifecycleOrder[i + 1]>> ELSE <<>>)

\* the workflow the last request named existed when the request arrived
Existed == request.workflow_id \in DOMAIN before

\* C1: for a workflow in lifecycle state S and any requested string T,
\* transition_workflow_status succeeds iff T is in the table row of S; on
\* success the status is T, on failure it is unchanged.
C1_TransitionIffInRow ==
    (request.op = "transition" /\ Existed
        /\ before[request.workflow_id].status \in LifecycleStates) =>
    LET S == before[request.workflow_id].status
        T == request.status
    IN  /\ response.result # NoneDict
        /\ response.result.success <=> T \in Range(TableRow(S))
        /\ response.result.success =>
               workflows = [before EXCEPT ![request.workflow_id].status = T]
        /\ ~response.result.success => workflows = before

C1_Witness ==
    /\ request.op = "transition" /\ Existed
    /\ before[request.workflow_id].status = "worker_done"
    /\ request.status = "draft"
    /\ response.result.success
    /\ workflows[request.workflow_id].status = "draft"

\* C2: advance_workflow_status on delivered fails with the terminal-state error
\* and leaves the status; on any other lifecycle state S it succeeds, stores the
\* forward successor of S and reports previous_status = S and status = successor.
C2_AdvanceForward ==
    (request.op = "advance" /\ Existed
        /\ before[request.workflow_id].status \in LifecycleStates) =>
    LET S == before[request.workflow_id].status IN
    /\ response.http = 200
    /\ IF S = "delivered"
       THEN /\ ~response.result.success
            /\ response.result.error = "already_final_status"
            /\ workflows = before
       ELSE /\ response.result.success
            /\ response.result.previous_status = S
            /\ response.result.status = LifecycleOrder[Position(S) + 1]
            /\ workflows = [before EXCEPT ![request.workflow_id].status =
                                              LifecycleOrder[Position(S) + 1]]

C2_Witness ==
    /\ request.op = "advance" /\ Existed
    /\ before[request.workflow_id].status = "draft"
    /\ response.result.success
    /\ response.result.previous_status = "draft"
    /\ response.result.status = "worker_done"

\* C3: rollback_workflow_status on draft fails with the initial-state error and
\* leaves the status; on any other lifecycle state S it succeeds and stores the
\* backward predecessor of S.
C3_RollbackBackward ==
    (request.op = "rollback" /\ Existed
        /\ before[request.workflow_id].status \in LifecycleStates) =>
    LET S == before[request.workflow_id].status IN
    /\ response.http = 200
    /\ IF S = "draft"
       THEN /\ ~response.result.success
            /\ response.result.error = "already_initial_status"
            /\ workflows = before
       ELSE /\ response.result.success
            /\ workflows = [before EXCEPT ![request.workflow_id].status =
                                              LifecycleOrder[Position(S) - 1]]

C3_Witness ==
    /\ request.op = "rollback" /\ Existed
    /\ before[request.workflow_id].status = "delivered"
    /\ response.result.success
    /\ workflows[request.workflow_id].status = "confirmed"

\* C4: from a state that is neither draft nor delivered, advance followed by
\* rollback, and rollback followed by advance, both succeed and leave the
\* workflow in its original status.
C4_RoundTrip ==
    (/\ prev # NoMove
     /\ request.op \in {"advance", "rollback"}
     /\ prev.op # request.op
     /\ prev.workflow_id = request.workflow_id
     /\ prev.status \in LifecycleStates \ {"draft", "delivered"}) =>
    /\ prev.success
    /\ response.result # NoneDict
    /\ response.result.success
    /\ workflows[request.workflow_id].status = prev.status

C4_Witness ==
    /\ prev # NoMove
    /\ prev.op = "rollback" /\ request.op = "advance"
    /\ prev.workflow_id = request.workflow_id
    /\ prev.status = "analyzed"
    /\ before[request.workflow_id].status = "expert_done"
    /\ workflows[request.workflow_id].status = "analyzed"

C6_EveryChangeInRow ==
    \A id \in DOMAIN before :
        workflows[id].status # before[id].status =>
            workflows[id].status \in Range(TableRow(before[id].status))

\* C7: a rejected transition is answered with structured data (HTTP 200, not an
\* error): success = false, an error message, and allowed_transitions equal to
\* the table row of the workflow's current status, which is left unchanged.
C7_RejectionCarriesRow ==
    (request.op = "transition" /\ Existed
        /\ before[request.workflow_id].status \in LifecycleStates
        /\ request.status \notin Range(TableRow(before[request.workflow_id].status))) =>
    /\ response.http = 200
    /\ response.result # NoneDict
    /\ DOMAIN response.result = {"success", "error", "allowed_transitions"}
    /\ response.result.success = FALSE
    /\ response.result.error =
           TransitionError(before[request.workflow_id].status, request.status)
    /\ response.result.allowed_transitions =
           TableRow(workflows[request.workflow_id].status)
    /\ workflows[request.workflow_id].status = before[request.workflow_id].status

C7_Witness ==
    /\ request.op = "transition" /\ Existed
    /\ before[request.workflow_id].status = "expert_done"
    /\ request.status = "confirmed"
    /\ response.http = 200
    /\ ~response.result.success
    /\ response.result.allowed_transitions = <<"worker_done", "analyzed">>
    /\ workflows[request.workflow_id].status = "expert_done"

\* C8: for a workflow id that does not exist, get_workflow_status,
\* transition_workflow_status, advance_workflow_status and
\* rollback_workflow_status return None, the router answers 404, and no stored
\* workflow changes.
C8_UnknownIdNotFound ==
    (request.op \in {"get_status", "transition", "advance", "rollback"} /\ ~Existed) =>
    /\ response.result = NoneDict
    /\ response.http = 404
    /\ workflows = before

C8_Witness ==
    /\ request.op = "transition" /\ ~Existed
    /\ request.status = "worker_done"
    /\ response.http = 404
    /\ \E id \in DOMAIN workflows : workflows[id].status = "draft"

\* C9: get_workflow_status returns the current status with allowed_transitions
\* equal to the table row of that status, non-empty for every lifecycle status,
\* and changes no stored state.
C9_GetStatusRow ==
    (request.op = "get_status" /\ Existed) =>
    /\ response.http = 200
    /\ response.result.id = request.workflow_id
    /\ response.result.status = workflows[request.workflow_id].status
    /\ response.result.allowed_transitions = TableRow(response.result.status)
    /\ response.result.status \in LifecycleStates =>
           response.result.allowed_transitions # <<>>
    /\ workflows = before

C9_Witness ==
    /\ request.op = "get_status" /\ Existed
    /\ response.result.status = "delivered"
    /\ response.result.allowed_transitions = <<"confirmed">>

\* C10: map_logic_strategy_to_protocol maps rule_based to RULE_BASED, few_shot to
\* SEMANTIC_SIMILARITY, and an absent or any other value to RULE_BASED, so its
\* result is always one of RULE_BASED and SEMANTIC_SIMILARITY.
C10_StrategyMapsIntoWire ==
    strategy_out # <<>> =>
    /\ strategy_out[1] =
           IF strategy_in = <<few_shot>> THEN SEMANTIC_SIMILARITY ELSE RULE_BASED
    /\ strategy_out[1] \in {RULE_BASED, SEMANTIC_SIMILARITY}

(***************************************************************************)
(* The protocol projection, stated on the answer of get_protocol and the   *)
(* rows stored when it was answered.                                       *)
(***************************************************************************)
Projected == request.op = "get_protocol" /\ response.http = 200

\* the steps of the answer, and the stored step an entry was made from
Entries == response.result.steps
StoredStep(entry) == steps[entry.step_id.hex]
StoredExamples(entry) ==
    SelectSeq(examples, LAMBDA example : example.step_id = entry.step_id.hex)
StoredBranches(entry) ==
    SelectSeq(routing_branches, LAMBDA branch : branch.step_id = entry.step_id.hex)

\* the stored keywords, none when the column is NULL
StoredKeywords(entry) ==
    IF StoredStep(entry).extraction_keywords = <<>>
    THEN <<>> ELSE StoredStep(entry).extraction_keywords[1]

\* C11: a step stored as few_shot with n >= 1 examples is projected with exactly n
\* few_shot_examples, in the order of the step's examples, each with the content,
\* the label and the description of its example, the description being the empty
\* string when the example has none.
C11_FewShotExamplesCopied ==
    Projected =>
    \A n \in DOMAIN Entries :
        LET stored == StoredExamples(Entries[n])
            out    == Entries[n].logic_config.few_shot_examples
        IN  (StoredStep(Entries[n]).logic_strategy = <<few_shot>> /\ Len(stored) >= 1) =>
            /\ out # <<>>
            /\ Len(out[1]) = Len(stored)
            /\ \A k \in DOMAIN stored :
                   /\ out[1][k].content = stored[k].content
                   /\ out[1][k].label = stored[k].label
                   /\ out[1][k].description =
                          IF stored[k].description = <<>>
                          THEN <<>> ELSE stored[k].description[1]

C11_Witness ==
    /\ Projected
    /\ \E n \in DOMAIN Entries :
           /\ StoredStep(Entries[n]).logic_strategy = <<few_shot>>
           /\ Len(StoredExamples(Entries[n])) = 2
           /\ StoredExamples(Entries[n])[1].label = "FAIL"
           /\ StoredExamples(Entries[n])[1].description = <<>>
           /\ StoredExamples(Entries[n])[2].label = "PASS"
           /\ Entries[n].logic_config.few_shot_examples[1][1].description = <<>>

\* C12: few_shot_examples is absent, and so never an empty list, for every step
\* whose stored strategy is not few_shot, whatever examples it has, and for a
\* few_shot step without examples.
C12_FewShotExamplesAbsent ==
    Projected =>
    \A n \in DOMAIN Entries :
        (\/ StoredStep(Entries[n]).logic_strategy # <<few_shot>>
         \/ StoredExamples(Entries[n]) = <<>>) =>
        Entries[n].logic_config.few_shot_examples = <<>>

C12_Witness ==
    /\ Projected
    /\ \E n \in DOMAIN Entries :
           /\ StoredStep(Entries[n]).logic_strategy = <<rule_based>>
           /\ Len(StoredExamples(Entries[n])) >= 1
           /\ Entries[n].logic_config.few_shot_examples = <<>>
    /\ \E n \in DOMAIN Entries :
           /\ StoredStep(Entries[n]).logic_strategy = <<few_shot>>
           /\ Entries[n].logic_config.few_shot_examples # <<>>

\* C13: output_schema.fields holds one {name: keyword, type: string} per stored
\* extraction keyword, in order, followed by exactly one {name: judgment_result,
\* type: string}; its length is the number of keywords plus one.
C13_OutputFields ==
    Projected =>
    \A n \in DOMAIN Entries :
        LET keywords == StoredKeywords(Entries[n])
            fields   == Entries[n].output_schema.fields
        IN  /\ Len(fields) = Len(keywords) + 1
            /\ \A k \in DOMAIN keywords :
                   fields[k] = [name |-> keywords[k], type |-> "string"]
            /\ fields[Len(keywords) + 1] = [name |-> judgment_result, type |-> "string"]

C13_Witness ==
    /\ Projected
    /\ \E n \in DOMAIN Entries :
           /\ Len(StoredKeywords(Entries[n])) = 2
           /\ Len(Entries[n].output_schema.fields) = 3

\* C14: routing_map.default_next is the stored routing_default_next when that is
\* set and not empty, and "next" otherwise; it is never absent or empty.
C14_DefaultNext ==
    Projected =>
    \A n \in DOMAIN Entries :
        LET stored == StoredStep(Entries[n]).routing_default_next
        IN  /\ Entries[n].routing_map.default_next =
                   IF stored # <<>> /\ Len(stored[1]) > 0 THEN stored[1] ELSE next
            /\ Len(Entries[n].routing_map.default_next) > 0

C14_Witness ==
    /\ Projected
    /\ \E n \in DOMAIN Entries :
           /\ StoredStep(Entries[n]).routing_default_next = <<<<>>>>
           /\ Entries[n].routing_map.default_next = next

\* C15: routing_map.branches holds one entry per stored branch of the step, in
\* stored order, each with the condition_result, action_type and next_step_id of
\* its branch; it is the empty list for a step without branches.
C15_BranchesCopied ==
    Projected =>
    \A n \in DOMAIN Entries :
        LET stored == StoredBranches(Entries[n])
            out    == Entries[n].routing_map.branches
        IN  /\ Len(out) = Len(stored)
            /\ \A k \in DOMAIN stored :
                   /\ out[k].condition_result = stored[k].condition_result
                   /\ out[k].action_type = stored[k].action_type
                   /\ out[k].next_step_id = stored[k].next_step_id
            /\ stored = <<>> => out = <<>>

C15_Witness ==
    /\ Projected
    /\ Len(Entries) = 2
    /\ Len(Entries[2].routing_map.branches) = 2
    /\ Entries[2].routing_map.branches[1].action_type
           # Entries[2].routing_map.branches[2].action_type
    /\ Len(Entries[1].routing_map.branches) = 1

\* the stored context_description, the empty string when the column is NULL
StoredDescription(entry) ==
    IF StoredStep(entry).context_description = <<>>
    THEN <<>> ELSE StoredStep(entry).context_description[1]

\* " [Keywords: k1, k2, ...]"
KeywordSuffix(keywords) == keywords_open \o join(comma, keywords) \o keywords_close

\* C16 as stated: input_spec.context_description is the stored description (or
\* the empty string) followed by " [Keywords: k1, k2, ...]" exactly when the step
\* has at least one keyword, and the description unmodified otherwise.
C16_KeywordSuffixAppended ==
    Projected =>
    \A n \in DOMAIN Entries :
        Entries[n].input_spec.context_description =
            IF Len(StoredKeywords(Entries[n])) >= 1
            THEN StoredDescription(Entries[n]) \o KeywordSuffix(StoredKeywords(Entries[n]))
            ELSE StoredDescription(Entries[n])

\* C16, amended: with at least one keyword, input_spec.context_description is the
\* stored description (or the empty string) followed by " [Keywords: k1, k2, ...]"
\* with the leading whitespace of that text removed, so that an empty description
\* gives "[Keywords: k1, k2, ...]"; without keywords it is the description
\* unmodified.
C16_KeywordSuffixStripped ==
    Projected =>
    \A n \in DOMAIN Entries :
        LET out  == Entries[n].input_spec.context_description
            full == StoredDescription(Entries[n]) \o KeywordSuffix(StoredKeywords(Entries[n]))
        IN  IF Len(StoredKeywords(Entries[n])) >= 1
            THEN /\ out[1] \notin whitespace
                 /\ \E k \in 0..Len(full) :
                        /\ out = SubSeq(full, k + 1, Len(full))
                        /\ \A i \in 1..k : full[i] \in whitespace
            ELSE out = StoredDescription(Entries[n])

C16_Witness ==
    /\ Projected
    /\ \E n \in DOMAIN Entries :
           /\ Len(StoredKeywords(Entries[n])) = 2
           /\ StoredDescription(Entries[n]) = <<>>
           /\ Entries[n].input_spec.context_description[1] = "["

ProtocolStepFields ==
    {"step_id", "step_name", "business_domain", "input_spec", "logic_config",
     "routing_map", "output_schema"}

\* C18: for a workflow that exists, generate_protocol answers 200 with a
\* ProtocolWorkflow holding exactly one entry per stored step of the workflow,
\* each with its seven fields defined; for a workflow that does not exist the
\* answer is 404; there is no other outcome.
C18_CompleteOrNotFound ==
    request.op = "get_protocol" =>
    IF request.workflow_id \in DOMAIN workflows
    THEN LET ids == {id \in DOMAIN steps : steps[id].workflow_id = request.workflow_id}
         IN  /\ response.http = 200
             /\ response.result.workflow_id = [hex |-> request.workflow_id]
             /\ response.result.workflow_name = workflows[request.workflow_id].name
             /\ Len(Entries) = Cardinality(ids)
             /\ {Entries[n].step_id.hex : n \in DOMAIN Entries} = ids
             /\ \A n \in DOMAIN Entries :
                    /\ DOMAIN Entries[n] = ProtocolStepFields
                    /\ Entries[n].step_name = StoredStep(Entries[n]).name
                    /\ Len(Entries[n].business_domain) > 0
                    /\ DOMAIN Entries[n].input_spec =
                           {"data_source", "target_section", "context_description"}
                    /\ Entries[n].input_spec.data_source # ""
                    /\ Entries[n].logic_config.logic_strategy
                           \in {RULE_BASED, SEMANTIC_SIMILARITY}
                    /\ Len(Entries[n].routing_map.default_next) > 0
                    /\ Len(Entries[n].output_schema.fields) > 0
    ELSE response.http = 404

C18_Witness ==
    /\ Projected
    /\ Len(Entries) = 2
    /\ Entries[1].logic_config.logic_strategy = SEMANTIC_SIMILARITY
    /\ Len(StoredDescription(Entries[2])) > 100
    /\ Len(Entries[2].business_domain) = 100

\* C19: the steps of a projected workflow are the steps of that workflow, each
\* once, in strictly ascending step_order, whatever creations, step_order updates
\* and deletions came before the projection.
C19_StepsAscending ==
    Projected =>
    /\ {Entries[n].step_id.hex : n \in DOMAIN Entries}
           = {id \in DOMAIN steps : steps[id].workflow_id = request.workflow_id}
    /\ \A m, n \in DOMAIN Entries :
           m < n => StoredStep(Entries[m]).step_order < StoredStep(Entries[n]).step_order

\* a projection of an edited workflow whose later-created step comes first
C19_Witness ==
    /\ Projected
    /\ request.workflow_id \in Edited
    /\ Len(Entries) = 2
    /\ Entries[1].step_id.hex > Entries[2].step_id.hex
    /\ StoredStep(Entries[1]).step_order < StoredStep(Entries[2]).step_order

\* C20: no two steps of the same workflow have the same step_order, after any
\* sequence of create_step, create_step_auto_order, create_step_for_task,
\* update_step, delete_step and creation from a template.
C20_StepOrderUnique ==
    \A a, b \in DOMAIN steps :
        (a # b /\ steps[a].workflow_id = steps[b].workflow_id)
            => steps[a].step_order # steps[b].step_order

\* a copy of a template that got a second step, one of the two then moved
C20_Witness ==
    /\ request.op = "update_step"
    /\ response.http = 200
    /\ request.workflow_id \in Edited
    /\ workflows[request.workflow_id].template_id # <<>>
    /\ StepCount(request.workflow_id) = 2
    /\ response.result.step_order = 0

\* C21: no two tasks of a workflow have the same task_order, and the order the
\* create-task endpoint would assign (the number of the workflow's tasks plus one)
\* is not the task_order of any task of that workflow.
C21_TaskOrdersDistinctAndFree ==
    /\ \A a, b \in DOMAIN tasks :
           (a # b /\ tasks[a].workflow_id = tasks[b].workflow_id)
               => tasks[a].task_order # tasks[b].task_order
    /\ \A workflow_id \in DOMAIN workflows :
           LET own == {id \in DOMAIN tasks : tasks[id].workflow_id = workflow_id}
           IN  \A id \in own : tasks[id].task_order # Cardinality(own) + 1

\* C22: whenever a step is deleted, by either delete endpoint, every remaining step
\* of its workflow whose step_order was greater has it decreased by one, and every
\* other step keeps its step_order.
C22_DeleteClosesGap ==
    [][\A deleted \in DOMAIN steps \ DOMAIN steps' :
           \A id \in DOMAIN steps \cap DOMAIN steps' :
               steps'[id].step_order =
                   IF /\ steps[id].workflow_id = steps[deleted].workflow_id
                      /\ steps[id].step_order > steps[deleted].step_order
                   THEN steps[id].step_order - 1
                   ELSE steps[id].step_order]_vars

\* the step orders of a workflow in a steps table
OrdersOf(tbl, workflow_id) ==
    {tbl[id].step_order : id \in {i \in DOMAIN tbl : tbl[i].workflow_id = workflow_id}}

\* C23: create_step_auto_order on an existing workflow adds exactly one step to it,
\* with a step_order one greater than the greatest the workflow had (0 when it had
\* no step), and leaves every step that existed unchanged; on a missing workflow it
\* is answered as not found and no step is added.
C23_AppendAddsOne ==
    [][request'.op = "create_step_auto_order" =>
       IF request'.workflow_id \in DOMAIN workflows
       THEN /\ response'.http = 201
            /\ \E new \in DOMAIN steps' \ DOMAIN steps :
                  /\ DOMAIN steps' = DOMAIN steps \cup {new}
                  /\ steps'[new].workflow_id = request'.workflow_id
                  /\ \A order \in OrdersOf(steps, request'.workflow_id) :
                         order < steps'[new].step_order
                  /\ \/ steps'[new].step_order = 0
                     \/ steps'[new].step_order - 1 \in OrdersOf(steps, request'.workflow_id)
            /\ \A id \in DOMAIN steps : steps'[id] = steps[id]
       ELSE /\ response'.http = 404
            /\ steps' = steps]_vars

\* an append to a workflow whose only step has step_order 1: the new step gets 2
C23_Witness ==
    /\ request.op = "create_step_auto_order"
    /\ response.http = 201
    /\ response.result.step_order = 2
    /\ OrdersOf(steps, 1) = {1, 2}

\* C28: in every stored state, create_step with a step_order that a step of the
\* workflow has, and update_step moving a step to the step_order of another step of
\* its workflow, raise StepOrderConflictError, answered 409, and leave the tables as
\* they were; update_step setting a step's order to the value it has raises nothing.
C28_OrderConflictRejected ==
    /\ \A order \in OrdersOf(steps, 1) :
           LET out == create_step(Db, 1, [name |-> <<"n">>, step_order |-> order])
           IN  /\ out.error = "StepOrderConflictError"
               /\ HTTPException(out.error, 201) = 409
               /\ out.db = Db
    /\ \A id \in OrderedSteps :
           /\ \A other \in OrderedSteps \ {id} :
                  LET out == update_step(Db, id,
                                         [step_order |-> <<steps[other].step_order>>])
                  IN  /\ out.error = "StepOrderConflictError"
                      /\ HTTPException(out.error, 200) = 409
                      /\ out.db = Db
           /\ LET out == update_step(Db, id, [step_order |-> <<steps[id].step_order>>])
              IN  /\ out.error = ""
                  /\ out.db = Db

\* an update_step request on a workflow of three steps was answered 409
C28_Witness ==
    /\ request.op = "update_step"
    /\ response.http = 409
    /\ Cardinality(OrderedSteps) = 3

\* C24: remove_routing_branch removes from the step exactly the branch with the
\* given id: the answer lists the step's other branches as they were and not that
\* id, and no other row of any table changes; when no branch of the step has the
\* id, nothing changes.
C24_RemovesExactlyThatBranch ==
    [][request'.op = "remove_routing_branch" =>
       /\ UNCHANGED <<workflows, tasks, steps, examples, notes>>
       /\ IF response'.http = 200
          THEN LET step_id   == response'.result.id
                   branch_id == request'.workflow_id
               IN  /\ routing_branches' =
                          SelectSeq(routing_branches,
                                    LAMBDA branch : ~(/\ branch.id = branch_id
                                                      /\ branch.step_id = step_id))
                   /\ response'.result.routing_branches =
                          SelectSeq(routing_branches,
                                    LAMBDA branch : /\ branch.step_id = step_id
                                                    /\ branch.id # branch_id)
          ELSE routing_branches' = routing_branches]_vars

\* the first of the two branches of a step was removed: the second is what is left
C24_Witness ==
    /\ request.op = "remove_routing_branch"
    /\ response.http = 200
    /\ request.workflow_id = 1
    /\ Len(response.result.routing_branches) = 1
    /\ row_ids(routing_branches) = {2}

\* C26: an example created on an existing step with label L is stored and read
\* back with label L, is in the step's list filtered by L and not in the list
\* filtered by the other label; on a missing step create_example raises
\* StepNotFoundError and stores nothing.
C26_LabelKept ==
    \A step_id \in 0..3, data \in ExampleCreates :
        LET out   == create_example(Db, step_id, data)
            other == CHOOSE label \in ExampleLabel : label # data.label
            same_list  == list_by_label(out.db, step_id, data.label).result
            other_list == list_by_label(out.db, step_id, other).result
            listed(list, id) == \E n \in DOMAIN list : list[n].id = id
        IN  IF step_id \in DOMAIN steps
            THEN /\ out.error = ""
                 /\ out.result.label = data.label
                 /\ Len(out.db.examples) = Len(examples) + 1
                 /\ SubSeq(out.db.examples, 1, Len(examples)) = examples
                 /\ out.result.id \notin row_ids(examples)
                 /\ get_example(out.db, out.result.id).result = out.result
                 /\ list_passing_examples(out.db, step_id).result =
                        list_by_label(out.db, step_id, "PASS").result
                 /\ list_failing_examples(out.db, step_id).result =
                        list_by_label(out.db, step_id, "FAIL").result
                 /\ listed(same_list, out.result.id)
                 /\ ~listed(other_list, out.result.id)
                 /\ \A n \in DOMAIN same_list : same_list[n].label = data.label
            ELSE /\ out.error = "StepNotFoundError"
                 /\ out.db = Db

\* a FAIL example was created on a step that already held a PASS example
C26_Witness ==
    /\ request.op = "create_example"
    /\ response.http = 201
    /\ response.result.label = "FAIL"
    /\ Len(list_passing_examples(Db, response.result.step_id).result) = 1
    /\ Len(list_failing_examples(Db, response.result.step_id).result) = 1

\* every task and step refers to a stored workflow, every example, branch and
\* note to a stored step
ReferencesExist ==
    /\ \A id \in DOMAIN tasks : tasks[id].workflow_id \in DOMAIN workflows
    /\ \A id \in DOMAIN steps :
           /\ steps[id].workflow_id \in DOMAIN workflows
           /\ \A n \in DOMAIN steps[id].task_id : steps[id].task_id[n] \in DOMAIN tasks
    /\ \A n \in DOMAIN examples : examples[n].step_id \in DOMAIN steps
    /\ \A n \in DOMAIN routing_branches : routing_branches[n].step_id \in DOMAIN steps
    /\ \A n \in DOMAIN notes : notes[n].step_id \in DOMAIN steps

\* the rows of a child table whose step is not of the workflow
RowsOutside(rows, workflow_id) ==
    SelectSeq(rows, LAMBDA row : steps[row.step_id].workflow_id # workflow_id)

\* C25: a delete_workflow request that deletes the workflow leaves no task, step,
\* note, example or branch of it and removes nothing of any other workflow; a
\* request that does not delete it changes nothing; and before and after every
\* step of the program each task and step refers to a stored workflow and each
\* note, example and branch to a stored step.
C25_DeleteCascades ==
    [][/\ ReferencesExist
       /\ ReferencesExist'
       /\ request'.op = "delete_workflow" =>
              LET workflow_id == request'.workflow_id IN
              IF response'.http = 204
              THEN /\ DOMAIN workflows' = DOMAIN workflows \ {workflow_id}
                   /\ \A id \in DOMAIN workflows' :
                          [workflows'[id] EXCEPT !.template_id = <<>>] =
                              [workflows[id] EXCEPT !.template_id = <<>>]
                   /\ tasks' = [id \in {t \in DOMAIN tasks :
                                           tasks[t].workflow_id # workflow_id} |->
                                   tasks[id]]
                   /\ steps' = [id \in {t \in DOMAIN steps :
                                           steps[t].workflow_id # workflow_id} |->
                                   steps[id]]
                   /\ examples' = RowsOutside(examples, workflow_id)
                   /\ routing_branches' = RowsOutside(routing_branches, workflow_id)
                   /\ notes' = RowsOutside(notes, workflow_id)
              ELSE UNCHANGED <<workflows, tasks, steps, examples, routing_branches,
                               notes>>]_vars

\* the template was deleted with its task, step, example, branch and note; the
\* copy keeps its own
C25_Witness ==
    /\ request.op = "delete_workflow"
    /\ request.workflow_id = 1
    /\ response.http = 204
    /\ DOMAIN before = {1, 2}
    /\ DOMAIN workflows = {2}
    /\ DOMAIN tasks = {2}
    /\ DOMAIN steps = {2}
    /\ row_ids(examples) = {2}
    /\ row_ids(routing_branches) = {2}
    /\ row_ids(notes) = {2}

\* C27: a transition request that has read status S and passed the check writes
\* its target and reports success whatever the other request has written since:
\* when two requests read the same S before either writes, both report success
\* and the stored status is the later writer's target, also when that target is
\* not in the table row of the earlier writer's target.
C27_LaterWriterWins ==
    [][\A session \in Sessions :
          LET mine == sessions[session]
              mine_after == sessions'[session]
          IN  /\ (mine.pc = "selected" /\ mine_after # mine) =>
                     /\ mine_after.pc = "committed"
                     /\ workflows'[mine.workflow_id].status = mine.new_status
              /\ (mine.pc = "committed" /\ mine_after # mine) =>
                     /\ mine_after.pc = "done"
                     /\ mine_after.http = 200
                     /\ mine_after.result.success
                     /\ UNCHANGED workflows]_vars

\* both requests read worker_done; draft was written first and expert_done over it,
\* and both answered success
C27_Witness ==
    /\ \A session \in Sessions :
           /\ sessions[session].pc = "done"
           /\ sessions[session].read_status = "worker_done"
           /\ sessions[session].http = 200
           /\ sessions[session].result.success
    /\ sessions["a"].new_status = "draft"
    /\ sessions["b"].new_status = "expert_done"
    /\ sessions["a"].result.status = "draft"
    /\ workflows[1].status = "expert_done"
    /\ "expert_done" \notin Range(VALID_TRANSITIONS["draft"])

\* C30: two auto-ordered step creations for one workflow that interleave are
\* assigned different step_order values, and both requests succeed.
C30_InterleavedAppendsDiffer ==
    /\ \A session \in Sessions : \A other \in Sessions \ {session} :
           (/\ sessions[session].pc = "read"
            /\ sessions[other].pc = "read"
            /\ sessions[session].step.workflow_id = sessions[other].step.workflow_id) =>
               sessions[session].step.step_order # sessions[other].step.step_order
    /\ \A session \in Sessions :
           sessions[session].pc = "done" => sessions[session].http \in {200, 201, 404}

\* the rows of a table that belong to a workflow
RowsOf(tbl, workflow_id) == {id \in DOMAIN tbl : tbl[id].workflow_id = workflow_id}

\* the copy of a template: one task per template task with its name and
\* task_order, steps numbered 1..n across the tasks in task order
CopiedTasksAndSteps(template_id, new_id, step_count) ==
    LET new_tasks == RowsOf(tasks', new_id)
        new_steps == RowsOf(steps', new_id)
    IN  /\ {<<tasks'[id].name, tasks'[id].task_order>> : id \in new_tasks} =
               {<<tasks[id].name, tasks[id].task_order>> : id \in RowsOf(tasks, template_id)}
        /\ Cardinality(new_tasks) = Cardinality(RowsOf(tasks, template_id))
        /\ Cardinality(new_steps) = step_count
        /\ {steps'[id].step_order : id \in new_steps} = 1..step_count
        /\ \A a, b \in new_steps :
               /\ steps'[a].task_id # <<>>
               /\ steps'[a].task_id[1] \in new_tasks
               /\ steps'[a].step_order < steps'[b].step_order =>
                      tasks'[steps'[a].task_id[1]].task_order <=
                          tasks'[steps'[b].task_id[1]].task_order

\* C29: create_workflow_from_template on a template creates one workflow (draft,
\* not a template, template_id the template) with one task per template task and
\* one step per template step, numbered 1..n across the tasks in task order, and
\* leaves the template's rows unchanged; on an id that is not a template it
\* answers not-found and creates nothing.
C29_TemplateCopied ==
    [][request'.op = "create_from_template" =>
       LET template_id == request'.workflow_id IN
       IF template_id \in DOMAIN workflows /\ workflows[template_id].is_template
       THEN /\ response'.http = 200
            /\ \E new_id \in DOMAIN workflows' \ DOMAIN workflows :
                   /\ DOMAIN workflows' = DOMAIN workflows \cup {new_id}
                   /\ workflows'[new_id].status = "draft"
                   /\ ~workflows'[new_id].is_template
                   /\ workflows'[new_id].template_id = <<template_id>>
                   /\ CopiedTasksAndSteps(template_id, new_id,
                                          Cardinality(RowsOf(steps, template_id)))
            /\ \A id \in DOMAIN workflows : workflows'[id] = workflows[id]
            /\ \A id \in DOMAIN tasks : tasks'[id] = tasks[id]
            /\ \A id \in DOMAIN steps : steps'[id] = steps[id]
       ELSE /\ response'.http = 404
            /\ UNCHANGED <<workflows, tasks, steps>>]_vars

====
